---- MODULE Spec2Model ----
(***************************************************************************)
(* A model of the sei-sense gateway: the network registry (chains.ts), the *)
(* derived-view reconstructor (getTransactionHistory, getWalletActivity),  *)
(* the analyze_wallet risk score (tools.ts) and the network listings.      *)
(*                                                                         *)
(* JavaScript strings are sequences of one-character strings, so that      *)
(* toLowerCase, includes, slice and parseInt are computed, not assumed.    *)
(* JavaScript values that may or may not be numbers are records            *)
(* [t |-> "num" | "nan" | "obj", v |-> Int].                               *)
(***************************************************************************)
EXTENDS Integers, Sequences, FiniteSets, TLC

VARIABLES
    \* ---- network registry (chains.ts) and the network listings
    identifier,     \* the chain identifier a caller passes: [t |-> "str", s |-> chars] or [t |-> "num", v |-> n]
    resolved,       \* what resolveChainId(identifier) returned, or NotCalled
    chainResult,    \* what getChain(identifier) returned or threw, or NotCalled
    toolNetworks,   \* the get_supported_networks tool's result, or NotCalled
    restNetworks,   \* the GET /getSupportedNetworks response, or NotCalled
    toolChain       \* the network a tool call works on and the chain it resolves to, or NotCalled

chainVars == <<identifier, resolved, chainResult, toolNetworks, restNetworks, toolChain>>

VARIABLES
    \* ---- the analyze_wallet tool handler (tools.ts)
    rAddress,       \* the address argument
    rpc,            \* "getBalance", "getWalletActivity", "done"
    rBalance,       \* what services.getBalance answered
    rActivity,      \* what services.getWalletActivity answered
    rResult         \* the handler's result: the report or the error content

riskVars == <<rAddress, rpc, rBalance, rActivity, rResult>>

VARIABLES
    \* ---- the chain as the node reports it (fixed during a call)
    latestBlock,    \* the block height
    blocks,         \* block number -> the block's transactions, in order
    nonce,          \* the transaction count of the queried address
    \* ---- one call of getTransactionHistory or getWalletActivity, and its caller
    entry,          \* "rest": GET /getTransactionHistory, "tool": get_transaction_history,
                    \* "activity": getWalletActivity
    hAddress,       \* the address argument
    hLimit,         \* the limit argument of getTransactionHistory
    hpc,            \* the await the call is at, "returned", "threw" or "done"
    blockNum,       \* the loop variable of the block scan
    startBlock,     \* the exclusive lower end of the scan window
    txIndex,        \* the index in the block of the transaction whose receipt is awaited
    transactions,   \* the records collected so far
    history,        \* what getTransactionHistory returned, or NotCalled
    outcome,        \* what the caller finally answers, or NotCalled
    fetches,        \* the number of getBlock calls issued so far
    unread,         \* the hashes of the transactions whose getTransactionReceipt call failed
    skipped         \* whether a getBlock call has failed

histVars == <<latestBlock, blocks, nonce, entry, hAddress, hLimit, hpc, blockNum,
              startBlock, txIndex, transactions, history, outcome, fetches, unread, skipped>>

VARIABLES
    \* ---- one call of utils.validateAddress (services/utils.ts)
    vAddress,       \* the string passed
    vResult         \* what the call returned or threw, or NotCalled

addrVars == <<vAddress, vResult>>

VARIABLES
    \* ---- one call of serializeBigInt (REST server)
    sValue,         \* the value passed
    sResult         \* the value returned, or NotCalled

serVars == <<sValue, sResult>>

VARIABLES
    \* ---- one request to a REST route (REST server)
    qRoute,         \* the route's index in RouteTable, 0 when there is no request
    qParamsOk,      \* whether the request carries the parameters the route asks for
    qTokenIdOk,     \* whether BigInt(tokenId) accepts the tokenId sent
    qpc,            \* "received", "awaiting" (the service call), "done"
    qThrown,        \* what the service call threw, or NotCalled
    qResponse       \* the response sent, or NotCalled

restVars == <<qRoute, qParamsOk, qTokenIdOk, qpc, qThrown, qResponse>>

VARIABLES
    \* ---- one call of the read_contract tool (tools.ts)
    cAbi,           \* the abi argument: [k |-> "array"] or [k |-> "string", text |-> chars]
    cChecked,       \* whether the server checks the arguments against the tool's schema
    cpc,            \* "called", "handler", "reading" (services.readContract awaited), "done"
    cReads,         \* the number of contract reads issued to the node
    cResult         \* the call's result, or NotCalled

contractVars == <<cAbi, cChecked, cpc, cReads, cResult>>

VARIABLES
    \* ---- the SSE sessions (REST server)
    server,         \* "null" until startServer resolves, then "ready"
    connections,    \* the session table: session id -> the connection whose transport it holds, 0 when absent
    sse,            \* connection -> [st: "none", "refused", "open", "closed"; sid: its session id;
                    \*                connect: "none", "pending", "resolved", "failed"]
    request         \* the last request other than GET /sse and how it was answered, or NotCalled

sseVars == <<server, connections, sse, request>>

VARIABLES
    \* ---- POST /gemini (REST server)
    gPrompt,        \* whether the request body carries a prompt
    gpc,            \* "received", "translating", "service", "summarising", "done"
    gCall,          \* what handleGeminiFunctionCall returned: a function call or a text, or NotCalled
    gService,       \* the service the switch called, "" when none
    gResponse,      \* the response sent, or NotCalled
    gLog            \* the external calls issued so far, in order: "translate", "service", "summarise"

geminiVars == <<gPrompt, gpc, gCall, gService, gResponse, gLog>>

VARIABLES
    \* ---- one classification of a transaction (getTransactionHistory)
    clsTx,          \* the transaction classified
    clsType         \* its classified type, or NotCalled

classifyVars == <<clsTx, clsType>>

VARIABLES
    \* ---- one call of the get_nft_info or get_nft_activity tool
    nTool,          \* the tool called
    npc,            \* the await the handler is at, or "done"
    nLatest,        \* the block height the node reports
    nBlock,         \* the loop variable of the activity scan
    nCount,         \* the activities collected so far
    nFailed,        \* the failures thrown by the calls the handler made, in order
    nResult         \* the handler's result, or NotCalled

nftToolVars == <<nTool, npc, nLatest, nBlock, nCount, nFailed, nResult>>

VARIABLES
    \* ---- one lookup of a numeric chain identifier (chains.ts)
    eId,            \* the identifier
    eResult         \* the descriptor and the endpoints found, or NotCalled

endpointVars == <<eId, eResult>>

moreVars == <<classifyVars, nftToolVars, endpointVars>>

auxVars == <<addrVars, serVars, restVars, contractVars, sseVars, geminiVars, moreVars>>

vars == <<chainVars, riskVars, histVars, auxVars>>

NotCalled == [t |-> "none"]

\* ------------------------------------------------------------------------
\* Strings
\* ------------------------------------------------------------------------

UpperChars == <<"A","B","C","D","E","F","G","H","I","J","K","L","M",
                "N","O","P","Q","R","S","T","U","V","W","X","Y","Z">>

LowerChars == <<"a","b","c","d","e","f","g","h","i","j","k","l","m",
                "n","o","p","q","r","s","t","u","v","w","x","y","z">>

DigitChars == <<"0","1","2","3","4","5","6","7","8","9">>

\* The index of character c in the sequence of characters cs, 0 when absent.
IndexOf(c, cs) ==
    IF \E i \in 1..Len(cs) : cs[i] = c
    THEN CHOOSE i \in 1..Len(cs) : cs[i] = c
    ELSE 0

UpperToLower == [u \in { UpperChars[i] : i \in 1..Len(UpperChars) } |->
                    LowerChars[IndexOf(u, UpperChars)]]

LowerToUpper == [l \in { LowerChars[i] : i \in 1..Len(LowerChars) } |->
                    UpperChars[IndexOf(l, LowerChars)]]

LowerChar(c) == IF c \in DOMAIN UpperToLower THEN UpperToLower[c] ELSE c

UpperChar(c) == IF c \in DOMAIN LowerToUpper THEN LowerToUpper[c] ELSE c

\* String.prototype.toLowerCase on ASCII text.
ToLowerCase(s) == [i \in 1..Len(s) |-> LowerChar(s[i])]

\* String.prototype.includes for a one-character needle.
IncludesChar(s, c) == \E i \in 1..Len(s) : s[i] = c

\* The drop of the first n characters of s.
DropChars(s, n) == IF n >= Len(s) THEN <<>> ELSE SubSeq(s, n + 1, Len(s))

\* ------------------------------------------------------------------------
\* JavaScript values and parseInt
\* ------------------------------------------------------------------------

Num(n) == [t |-> "num", v |-> n]

NaN == [t |-> "nan", v |-> 0]

Undefined == [t |-> "undef", v |-> 0]

\* A value inherited from Object.prototype (a function or an object), which
\* is neither a number nor undefined.
InheritedObject == [t |-> "obj", v |-> 0]

IsNumber(x) == x.t = "num"

\* JavaScript truthiness of the values above.
Truthy(x) == (x.t = "num" /\ x.v # 0) \/ x.t = "obj"

\* The value of character c as a digit in the radix, -1 when it is none.
DigitValue(c, radix) ==
    LET d == IndexOf(c, DigitChars)
        l == IndexOf(LowerChar(c), <<"a","b","c","d","e","f">>)
    IN  IF d > 0 THEN d - 1
        ELSE IF radix = 16 /\ l > 0 THEN 9 + l
        ELSE -1

RECURSIVE SkipSpaces(_)
SkipSpaces(s) ==
    IF Len(s) > 0 /\ s[1] = " " THEN SkipSpaces(Tail(s)) ELSE s

\* The longest prefix of digits of s read in the radix: [any, val].
RECURSIVE ParseDigits(_, _, _, _)
ParseDigits(s, radix, any, val) ==
    IF Len(s) > 0 /\ DigitValue(s[1], radix) >= 0
    THEN ParseDigits(Tail(s), radix, TRUE, val * radix + DigitValue(s[1], radix))
    ELSE [any |-> any, val |-> val]

\* parseInt(s, radix), radix 0 standing for no radix argument: leading white
\* space, a sign, a 0x prefix (read when the radix is 16 or absent, and then
\* the radix is 16), then the longest prefix of digits; NaN when there is none.
ParseIntRadix(s, radix) ==
    LET a    == SkipSpaces(s)
        neg  == Len(a) > 0 /\ a[1] = "-"
        b    == IF Len(a) > 0 /\ a[1] \in {"-", "+"} THEN Tail(a) ELSE a
        hex  == radix \in {0, 16} /\ Len(b) >= 2 /\ b[1] = "0" /\ b[2] \in {"x", "X"}
        c    == IF hex THEN DropChars(b, 2) ELSE b
        rdx  == IF hex THEN 16 ELSE IF radix = 0 THEN 10 ELSE radix
        r    == ParseDigits(c, rdx, FALSE, 0)
    IN  IF r.any THEN Num(IF neg THEN 0 - r.val ELSE r.val) ELSE NaN

ParseInt(s) == ParseIntRadix(s, 0)

\* ------------------------------------------------------------------------
\* Network registry (chains.ts)
\* ------------------------------------------------------------------------

DEFAULT_NETWORK == <<"s","e","i","-","t","e","s","t","n","e","t">>

DEFAULT_CHAIN_ID == 1328

SeiChainId == 1329

SeiTestnetChainId == 1328

SeiDevnetChainId == 713715

\* chainMap: chain id -> chain descriptor (the viem chain of that id).
chainMapKeys == {SeiChainId, SeiTestnetChainId, SeiDevnetChainId}

sei == [id |-> SeiChainId, name |-> "Sei Network"]

NoChain == [id |-> 0, name |-> "none"]

\* `chainMap[key] || sei`: a key that is no chain id of the map (an unknown
\* number, or a value that is no number) reads undefined, and sei is returned.
chainMapOrSei(key) ==
    IF IsNumber(key) /\ key.v \in chainMapKeys
    THEN [id |-> key.v,
          name |-> IF key.v = SeiChainId THEN "Sei Network"
                   ELSE IF key.v = SeiTestnetChainId THEN "Sei Testnet"
                   ELSE "Sei Devnet"]
    ELSE sei

\* networkNameMap, in the order of the object literal (the order of Object.keys).
networkNameMap ==
    << [name |-> <<"s","e","i">>, id |-> SeiChainId],
       [name |-> <<"s","e","i","-","t","e","s","t","n","e","t">>, id |-> SeiTestnetChainId],
       [name |-> <<"s","e","i","-","d","e","v","n","e","t">>, id |-> SeiDevnetChainId] >>

networkNames == [i \in 1..Len(networkNameMap) |-> networkNameMap[i].name]

IsAlias(name) == \E i \in 1..Len(networkNameMap) : networkNameMap[i].name = name

\* networkNameMap is a plain object literal, so it inherits the properties
\* of Object.prototype; these are the inherited names.
ObjectPrototypeProps ==
    { <<"c","o","n","s","t","r","u","c","t","o","r">>,
      <<"_","_","p","r","o","t","o","_","_">>,
      <<"t","o","S","t","r","i","n","g">>,
      <<"v","a","l","u","e","O","f">> }

\* `name in networkNameMap`: own and inherited properties.
InNetworkNameMap(name) == IsAlias(name) \/ name \in ObjectPrototypeProps

\* `networkNameMap[name]`.
networkNameMapGet(name) ==
    IF IsAlias(name)
    THEN Num(networkNameMap[CHOOSE i \in 1..Len(networkNameMap) :
                                networkNameMap[i].name = name].id)
    ELSE IF name \in ObjectPrototypeProps THEN InheritedObject
    ELSE Undefined

\* A resolveChainId that looks the identifier up as given (no toLowerCase).
ResolveLookupName_AsGiven(s) == s

\* The lookup name of resolveChainId: the identifier lower-cased.
ResolveLookupName(s) == ToLowerCase(s)

resolveChainId(chainIdentifier) ==
    IF chainIdentifier.t = "num" THEN Num(chainIdentifier.v)
    ELSE LET networkName == ResolveLookupName(chainIdentifier.s)
             parsedId    == ParseInt(networkName)
         IN  IF InNetworkNameMap(networkName) THEN networkNameMapGet(networkName)
             ELSE IF parsedId.t # "nan" THEN parsedId
             ELSE Num(DEFAULT_CHAIN_ID)

\* getChain: the descriptor, or the thrown "Unsupported network" error.
getChain(chainIdentifier) ==
    IF chainIdentifier.t = "str"
    THEN LET networkName == ToLowerCase(chainIdentifier.s)
         IN  IF Truthy(networkNameMapGet(networkName))
             THEN [t |-> "chain", chain |-> chainMapOrSei(networkNameMapGet(networkName))]
             ELSE [t |-> "throw", chain |-> NoChain]
    ELSE [t |-> "chain", chain |-> chainMapOrSei(Num(chainIdentifier.v))]

\* A getSupportedNetworks that lists every key (the filter dropped).
getSupportedNetworks_Unfiltered == networkNames

\* getSupportedNetworks of chains.ts: the keys without a hyphen.
getSupportedNetworks == SelectSeq(networkNames, LAMBDA name : ~IncludesChar(name, "-"))

\* getSupportedNetworks of services/network.ts: the names of the listed networks.
NetworkService_getSupportedNetworks ==
    [networks |-> << [name |-> <<"s","e","i">>, chainId |-> "pacific-1", type |-> "cosmos"],
                     [name |-> <<"s","e","i","-","t","e","s","t","n","e","t">>,
                      chainId |-> "atlantic-2", type |-> "cosmos"] >>]

\* ---- idle states of the components a specification leaves alone

RiskIdle ==
    /\ rAddress = <<>>
    /\ rpc = "idle"
    /\ rBalance = NotCalled
    /\ rActivity = NotCalled
    /\ rResult = NotCalled

AddressIdle ==
    /\ vAddress = <<>>
    /\ vResult = NotCalled

SerializeIdle ==
    /\ sValue = NotCalled
    /\ sResult = NotCalled

RestIdle ==
    /\ qRoute = 0
    /\ qParamsOk = FALSE
    /\ qTokenIdOk = FALSE
    /\ qpc = "idle"
    /\ qThrown = NotCalled
    /\ qResponse = NotCalled

ContractIdle ==
    /\ cAbi = NotCalled
    /\ cChecked = FALSE
    /\ cpc = "idle"
    /\ cReads = 0
    /\ cResult = NotCalled

SseIdle ==
    /\ server = "null"
    /\ connections = <<>>
    /\ sse = <<>>
    /\ request = NotCalled

GeminiIdle ==
    /\ gPrompt = FALSE
    /\ gpc = "idle"
    /\ gCall = NotCalled
    /\ gService = ""
    /\ gResponse = NotCalled
    /\ gLog = <<>>

ClassifyIdle ==
    /\ clsTx = NotCalled
    /\ clsType = NotCalled

NftToolIdle ==
    /\ nTool = "idle"
    /\ npc = "idle"
    /\ nLatest = 0
    /\ nBlock = 0
    /\ nCount = 0
    /\ nFailed = <<>>
    /\ nResult = NotCalled

EndpointIdle ==
    /\ eId = 0
    /\ eResult = NotCalled

MoreIdle ==
    /\ ClassifyIdle
    /\ NftToolIdle
    /\ EndpointIdle

AuxIdle ==
    /\ SseIdle
    /\ GeminiIdle
    /\ MoreIdle
    /\ AddressIdle
    /\ SerializeIdle
    /\ RestIdle
    /\ ContractIdle

HistoryIdle ==
    /\ latestBlock = 0
    /\ blocks = <<>>
    /\ nonce = 0
    /\ entry = "idle"
    /\ hAddress = <<>>
    /\ hLimit = NaN
    /\ hpc = "idle"
    /\ blockNum = 0
    /\ startBlock = 0
    /\ txIndex = 0
    /\ transactions = <<>>
    /\ history = NotCalled
    /\ outcome = NotCalled
    /\ fetches = 0
    /\ unread = {}
    /\ skipped = FALSE

\* ---- the identifiers a caller may pass

MaxIdLen == 2

IdAlphabet == {"s", "E", "1", "9", "-", "x", "0"}

\* Every upper/lower-case variant of a name.
CaseVariants(name) ==
    { [i \in 1..Len(name) |-> IF i \in S THEN UpperChar(name[i]) ELSE name[i]] :
        S \in SUBSET (1..Len(name)) }

AliasVariants == UNION { CaseVariants(networkNameMap[i].name) : i \in 1..Len(networkNameMap) }

ShortStrings == UNION { [1..k -> IdAlphabet] : k \in 0..MaxIdLen }

NamedStrings ==
    { <<"1","3","2","9">>, <<"1","3","2","8">>, <<"7","1","3","7","1","5">>,
      <<"4","2","a","b","c">>, <<" ","7">>, <<"-","5">>, <<"0","X","1","0">>,
      <<"m","a","i","n","n","e","t">>, <<"s","e","i","-">>, <<"S","E","I","1">>,
      <<"c","o","n","s","t","r","u","c","t","o","r">>,
      <<"C","o","n","s","t","r","u","c","t","o","r">>,
      <<"_","_","p","r","o","t","o","_","_">>,
      <<"t","o","S","t","r","i","n","g">> }

StringIdentifiers == AliasVariants \cup ShortStrings \cup NamedStrings

NumberIdentifiers == {SeiChainId, SeiTestnetChainId, SeiDevnetChainId, 0, 1, 5, -1}

Identifiers ==
    { [t |-> "str", s |-> x, v |-> 0] : x \in StringIdentifiers } \cup
    { [t |-> "num", s |-> <<>>, v |-> n] : n \in NumberIdentifiers }

\* ---- the registry's operations, each called once on the identifier

ChainsIdle ==
    /\ identifier = [t |-> "num", s |-> <<>>, v |-> 0]
    /\ resolved = NotCalled
    /\ chainResult = NotCalled
    /\ toolNetworks = NotCalled
    /\ restNetworks = NotCalled
    /\ toolChain = NotCalled

InitChains ==
    /\ RiskIdle
    /\ HistoryIdle
    /\ AuxIdle
    /\ identifier \in Identifiers
    /\ resolved = NotCalled
    /\ chainResult = NotCalled
    /\ toolNetworks = NotCalled
    /\ restNetworks = NotCalled
    /\ toolChain = NotCalled

CallResolveChainId ==
    /\ resolved = NotCalled
    /\ resolved' = resolveChainId(identifier)
    /\ UNCHANGED <<identifier, chainResult, toolNetworks, restNetworks, toolChain, riskVars, histVars, auxVars>>

CallGetChain ==
    /\ chainResult = NotCalled
    /\ chainResult' = getChain(identifier)
    /\ UNCHANGED <<identifier, resolved, toolNetworks, restNetworks, toolChain, riskVars, histVars, auxVars>>

\* The get_supported_networks tool: the registry's list, as the content.
ToolGetSupportedNetworks ==
    /\ toolNetworks = NotCalled
    /\ toolNetworks' = [t |-> "content", supportedNetworks |-> getSupportedNetworks]
    /\ UNCHANGED <<identifier, resolved, chainResult, restNetworks, toolChain, riskVars, histVars, auxVars>>

\* GET /getSupportedNetworks: 200 with the network service's listing.
RouteGetSupportedNetworks ==
    /\ restNetworks = NotCalled
    /\ restNetworks' = [t |-> "response", status |-> 200,
                        body |-> NetworkService_getSupportedNetworks]
    /\ UNCHANGED <<identifier, resolved, chainResult, toolNetworks, toolChain, riskVars, histVars, auxVars>>

\* `network = DEFAULT_NETWORK` in a tool's parameters: the network passed, or
\* the default when the call has none.
NetworkArgument(given) ==
    IF given /\ identifier.t = "str" THEN identifier.s ELSE DEFAULT_NETWORK

\* A tool called with or without a network argument (get_chain_info,
\* get_balance, ...): the network it hands to the services and the chain
\* that network resolves to (getRpcUrl).
ToolCallWithNetwork ==
    /\ toolChain = NotCalled
    /\ \E given \in BOOLEAN :
         /\ given => identifier.t = "str"
         /\ toolChain' = [t |-> "content", given |-> given,
                          network |-> NetworkArgument(given),
                          chainId |-> resolveChainId([t |-> "str", s |-> NetworkArgument(given),
                                                      v |-> 0])]
    /\ UNCHANGED <<identifier, resolved, chainResult, toolNetworks, restNetworks,
                   riskVars, histVars, auxVars>>

NextChains ==
    \/ CallResolveChainId
    \/ CallGetChain
    \/ ToolGetSupportedNetworks
    \/ RouteGetSupportedNetworks
    \/ ToolCallWithNetwork

SpecChains == InitChains /\ [][NextChains]_vars

\* ------------------------------------------------------------------------
\* Claims about the network registry and the network listings
\* ------------------------------------------------------------------------

Chars(s) == { s[i] : i \in 1..Len(s) }

HasHyphen(s) == "-" \in Chars(s)

\* s is name with some of its letters in upper case.
IsCaseVariant(s, name) ==
    /\ Len(s) = Len(name)
    /\ \A i \in 1..Len(name) : s[i] \in {name[i], UpperChar(name[i])}

\* C6: for every known alias and every upper/lower-case variant of it,
\* resolveChainId returns the chain id networkNameMap gives the alias.
C6_AliasAnyCasing ==
    \A i \in 1..Len(networkNameMap) :
        ( /\ identifier.t = "str"
          /\ IsCaseVariant(identifier.s, networkNameMap[i].name)
          /\ resolved # NotCalled )
        => resolved = Num(networkNameMap[i].id)

\* C6 witness: resolveChainId has answered the devnet id for a variant of
\* 'sei-devnet' that has upper-case letters.
C6_Witness ==
    /\ identifier.t = "str"
    /\ IsCaseVariant(identifier.s, networkNameMap[3].name)
    /\ identifier.s # networkNameMap[3].name
    /\ resolved = Num(SeiDevnetChainId)

\* C7 (as claimed): resolveChainId returns a number for every string, and
\* DEFAULT_CHAIN_ID for a string that is neither an alias after lower-casing
\* nor parseable as an integer.
C7_FallbackToDefault ==
    (identifier.t = "str" /\ resolved # NotCalled)
    => /\ IsNumber(resolved)
       /\ ( /\ ~IsAlias(ToLowerCase(identifier.s))
            /\ ParseInt(identifier.s) = NaN )
          => resolved = Num(DEFAULT_CHAIN_ID)

\* C8 (as claimed): getChain throws for every string that is no alias after
\* lower-casing, and returns the alias's chain for every alias in any casing.
C8_GetChainThrowsOnUnknown ==
    (identifier.t = "str" /\ chainResult # NotCalled)
    => /\ ~IsAlias(ToLowerCase(identifier.s)) => chainResult.t = "throw"
       /\ \A i \in 1..Len(networkNameMap) :
            ToLowerCase(identifier.s) = networkNameMap[i].name
            => /\ chainResult.t = "chain"
               /\ chainResult.chain.id = networkNameMap[i].id

\* C9: the list the get_supported_networks tool serves holds exactly the
\* aliases of networkNameMap without a hyphen, so no name with a hyphen.
C9_ToolListHasNoHyphen ==
    toolNetworks # NotCalled
    => LET names == toolNetworks.supportedNetworks
       IN  /\ \A i \in 1..Len(names) : ~HasHyphen(names[i])
           /\ { names[i] : i \in 1..Len(names) } =
              { networkNameMap[i].name : i \in { j \in 1..Len(networkNameMap) :
                                                  ~HasHyphen(networkNameMap[j].name) } }

\* C9 witness: the tool has answered, and its list holds "sei".
C9_Witness ==
    /\ toolNetworks # NotCalled
    /\ \E i \in 1..Len(toolNetworks.supportedNetworks) :
          toolNetworks.supportedNetworks[i] = <<"s","e","i">>

\* C10 (as claimed): the listing GET /getSupportedNetworks answers exposes
\* "sei" and no name with a hyphen.
C10_RestListHasNoHyphen ==
    restNetworks # NotCalled
    => LET nets == restNetworks.body.networks
       IN  /\ \E i \in 1..Len(nets) : nets[i].name = <<"s","e","i">>
           /\ \A i \in 1..Len(nets) : ~HasHyphen(nets[i].name)

\* C16: a tool invoked without a network argument works on Sei mainnet,
\* chain id 1329, as the parameter descriptions say.
C16_DefaultIsMainnet ==
    (toolChain # NotCalled /\ ~toolChain.given) => toolChain.chainId = Num(SeiChainId)

\* ------------------------------------------------------------------------
\* Addresses (services/utils.ts)
\* ------------------------------------------------------------------------

IsHexChar(c) ==
    \/ IndexOf(c, DigitChars) > 0
    \/ IndexOf(c, <<"a","b","c","d","e","f","A","B","C","D","E","F">>) > 0

IsLowerAlnumChar(c) == IndexOf(c, DigitChars) > 0 \/ IndexOf(c, LowerChars) > 0

EvmBodyLen == 40

SeiBodyLen == 38

\* The pattern without its end anchor: /^0x[a-fA-F0-9]{40}/.
MatchesEvm_Unanchored(address) ==
    /\ Len(address) >= 2 + EvmBodyLen
    /\ address[1] = "0" /\ address[2] = "x"
    /\ \A i \in 3..(2 + EvmBodyLen) : IsHexChar(address[i])

\* /^0x[a-fA-F0-9]{40}$/
MatchesEvm(address) ==
    /\ Len(address) = 2 + EvmBodyLen
    /\ address[1] = "0" /\ address[2] = "x"
    /\ \A i \in 3..Len(address) : IsHexChar(address[i])

\* /^sei1[0-9a-z]{38}$/
MatchesSei(address) ==
    /\ Len(address) = 4 + SeiBodyLen
    /\ address[1] = "s" /\ address[2] = "e" /\ address[3] = "i" /\ address[4] = "1"
    /\ \A i \in 5..Len(address) : IsLowerAlnumChar(address[i])

\* validateAddress: the address itself, or the thrown "Invalid address" error.
validateAddress(address) ==
    IF MatchesEvm(address) THEN [t |-> "return", address |-> address]
    ELSE IF MatchesSei(address) THEN [t |-> "return", address |-> address]
    ELSE [t |-> "throw", name |-> "Error",
          message |-> <<"I","n","v","a","l","i","d"," ","a","d","d","r","e","s","s",":"," ">>
                      \o address]

\* String.prototype.slice(-n): the last n characters (all of a shorter string).
SliceLast(s, n) == IF Len(s) <= n THEN s ELSE SubSeq(s, Len(s) - n + 1, Len(s))

\* ---- the addresses a caller may pass: a fixed body and every 4-character tail

Repeat(c, n) == [i \in 1..n |-> c]

TailAlphabet == {"0", "f", "F", "z"}

AddressTails == [1..4 -> TailAlphabet]

CandidateAddresses ==
    { <<"0","x">> \o Repeat("0", EvmBodyLen - 4) \o tail : tail \in AddressTails } \cup
    { <<"s","e","i","1">> \o Repeat("q", SeiBodyLen - 4) \o tail : tail \in AddressTails }

AcceptedAddresses == { a \in CandidateAddresses : validateAddress(a).t = "return" }

\* ---- utils.validateAddress called on well-formed and malformed strings

\* What a malformed string starts with, next to the two proper prefixes.
AddressPrefixes ==
    { <<"0","x">>, <<"0","X">>, <<"x">>, <<" ","0","x">>,
      <<"s","e","i","1">>, <<"S","e","i","1">>, <<"s","e","i","2">>, <<>> }

\* Body lengths around the two the patterns ask for.
BodyLengths == { SeiBodyLen - 1, SeiBodyLen, SeiBodyLen + 1, EvmBodyLen, EvmBodyLen + 1 }

\* What follows the body: nothing, a line end, a further address.
AddressSuffixes == { <<>>, <<"\n">>, <<" ">> }

ValidationInputs ==
    CandidateAddresses \cup
    { p \o Repeat(c, n) \o x :
        p \in AddressPrefixes, c \in {"a", "A", "7", "g", "-"}, n \in BodyLengths,
        x \in AddressSuffixes } \cup
    { <<>>, <<"0","x">>, <<"s","e","i","1">> }

InitAddress ==
    /\ MoreIdle
    /\ ChainsIdle
    /\ RiskIdle
    /\ HistoryIdle
    /\ SerializeIdle
    /\ RestIdle
    /\ SseIdle
    /\ GeminiIdle
    /\ ContractIdle
    /\ vAddress \in ValidationInputs
    /\ vResult = NotCalled

CallValidateAddress ==
    /\ vResult = NotCalled
    /\ vResult' = validateAddress(vAddress)
    /\ UNCHANGED <<vAddress, chainVars, riskVars, histVars, serVars, restVars, contractVars, sseVars, geminiVars, moreVars>>

NextAddress == CallValidateAddress

SpecAddress == InitAddress /\ [][NextAddress]_vars

\* ---- claims about validateAddress

HexDigitSet ==
    {"0","1","2","3","4","5","6","7","8","9",
     "a","b","c","d","e","f","A","B","C","D","E","F"}

SeiCharSet ==
    {"0","1","2","3","4","5","6","7","8","9",
     "a","b","c","d","e","f","g","h","i","j","k","l","m",
     "n","o","p","q","r","s","t","u","v","w","x","y","z"}

\* s is prefix followed by exactly n characters of the set.
IsPrefixThenBody(s, prefix, n, set) ==
    /\ Len(s) = Len(prefix) + n
    /\ SubSeq(s, 1, Len(prefix)) = prefix
    /\ \A i \in (Len(prefix) + 1)..Len(s) : s[i] \in set

IsWellFormedAddress(s) ==
    \/ IsPrefixThenBody(s, <<"0","x">>, 40, HexDigitSet)
    \/ IsPrefixThenBody(s, <<"s","e","i","1">>, 38, SeiCharSet)

\* C11: validateAddress returns its argument unchanged for '0x' + 40 hex
\* characters and for 'sei1' + 38 characters of [0-9a-z]; for every other
\* string it throws the invalid-address error and returns nothing.
C11_ValidateAddress ==
    vResult # NotCalled =>
        IF IsWellFormedAddress(vAddress)
        THEN vResult.t = "return" /\ vResult.address = vAddress
        ELSE /\ vResult.t = "throw"
             /\ SubSeq(vResult.message, 1, 15) =
                   <<"I","n","v","a","l","i","d"," ","a","d","d","r","e","s","s">>
             /\ SubSeq(vResult.message, 18, Len(vResult.message)) = vAddress

\* C11 witness: a well-formed address of mixed case was returned.
C11_Witness ==
    /\ vResult # NotCalled
    /\ vResult.t = "return"
    /\ vAddress[1] = "0"
    /\ \E i \in 3..Len(vAddress) : vAddress[i] = "F"

\* C11 witness of the failing side: 41 hex characters after '0x' were refused.
C11_WitnessRefused ==
    /\ vResult # NotCalled
    /\ vResult.t = "throw"
    /\ Len(vAddress) = 43
    /\ vAddress[1] = "0" /\ vAddress[2] = "x"
    /\ \A i \in 3..43 : vAddress[i] = "a"

\* ------------------------------------------------------------------------
\* The analyze_wallet tool (tools.ts)
\* ------------------------------------------------------------------------

\* Scores are exact rationals counted in units of 1/(100 * 65535), so that
\* the hundredths the code adds and seed * 0.1 = parseInt(tail, 16) / 65535 * 0.1
\* are whole numbers of units. Floating-point rounding error (below 1e-15) is
\* not modelled.
SeedDivisor == 65535

ScoreUnitsPerHundredth == SeedDivisor

Hundredths(h) == h * ScoreUnitsPerHundredth

AddNum(x, units) == IF x.t = "num" THEN Num(x.v + units) ELSE NaN

\* x + seed * 0.1, where seed = parsed / 65535: parsed * 10 units.
AddSeed(x, parsed) ==
    IF x.t = "num" /\ parsed.t = "num" THEN Num(x.v + parsed.v * 10) ELSE NaN

\* Math.min(x, cap): NaN when x is NaN.
MathMin(x, cap) == IF x.t = "num" THEN Num(IF x.v < cap THEN x.v ELSE cap) ELSE NaN

\* parseFloat(x.toFixed(3)) as JSON.stringify writes it: the score rounded to
\* thousandths, and null for NaN.
ReportedScore(x) ==
    IF x.t = "num"
    THEN [t |-> "num", thousandths |-> (x.v * 20 + ScoreUnitsPerHundredth) \div (2 * ScoreUnitsPerHundredth)]
    ELSE [t |-> "null", thousandths |-> 0]

\* The length of the longest prefix of decimal digits of s.
RECURSIVE IntPartLen(_)
IntPartLen(s) ==
    IF Len(s) > 0 /\ DigitValue(s[1], 10) >= 0 THEN 1 + IntPartLen(Tail(s)) ELSE 0

\* parseFloat of a formatted balance with at most one fractional digit, in
\* tenths; NaN for a text with no leading digit.
ParseFloatTenths(s) ==
    LET int  == ParseDigits(s, 10, FALSE, 0)
        rest == DropChars(s, IntPartLen(s))
    IN  IF ~int.any THEN NaN
        ELSE IF Len(rest) >= 2 /\ rest[1] = "." /\ DigitValue(rest[2], 10) >= 0
             THEN Num(int.val * 10 + DigitValue(rest[2], 10))
             ELSE Num(int.val * 10)

\* The transaction-count terms of the score.
CountTerms(transactionCount) ==
    (IF transactionCount > 10 THEN Hundredths(5) ELSE 0) +
    (IF transactionCount > 50 THEN Hundredths(10) ELSE 0) +
    (IF transactionCount > 100 THEN Hundredths(15) ELSE 0) +
    (IF transactionCount > 500 THEN Hundredths(20) ELSE 0) +
    (IF transactionCount > 1000 THEN Hundredths(25) ELSE 0)

\* The recency term: lastActivity is null or its age in hours (now - t).
RecencyTerm(lastActivity) ==
    IF lastActivity.t = "null" THEN 0
    ELSE IF lastActivity.ageHours < 24 THEN Hundredths(10)
    ELSE IF lastActivity.ageHours < 7 * 24 THEN Hundredths(5)
    ELSE 0

\* The balance terms: comparisons with NaN are false.
BalanceTerms(balanceValue) ==
    (IF balanceValue.t = "num" /\ balanceValue.v > 1000 * 10 THEN Hundredths(10) ELSE 0) +
    (IF balanceValue.t = "num" /\ balanceValue.v > 10000 * 10 THEN Hundredths(15) ELSE 0)

\* The seed of the address: parseInt(address.slice(-4), 16).
AddressSeed(address) == ParseIntRadix(SliceLast(address, 4), 16)

\* The risk score of the handler, before it is reported.
RiskScore(address, balance, activity) ==
    LET base    == Num(Hundredths(5))
        counted == AddNum(base, CountTerms(activity.transactionCount))
        recent  == AddNum(counted, RecencyTerm(activity.lastActivity))
        held    == AddNum(recent, BalanceTerms(ParseFloatTenths(balance.sei)))
        seeded  == AddSeed(held, AddressSeed(address))
    IN  MathMin(seeded, Hundredths(85))

\* ---- what the services answer the handler

\* services.getBalance: the formatted balance (balance.sei), or a failure.
FormattedBalances ==
    { <<"0">>, <<"1","0","0","0">>, <<"1","0","0","0",".","5">>,
      <<"1","0","0","0","0">>, <<"1","0","0","0","0",".","1">> }

TransactionCounts == {0, 10, 11, 50, 51, 100, 101, 500, 501, 1000, 1001}

\* lastActivity: null, or a timestamp by its age in hours (negative: ahead of the clock).
LastActivities ==
    { [t |-> "null", ageHours |-> 0] } \cup
    { [t |-> "time", ageHours |-> h] : h \in {-1, 0, 23, 24, 167, 168} }

ActivityResults ==
    { [transactionCount |-> c, lastActivity |-> l] :
        c \in TransactionCounts, l \in LastActivities }

InitRisk ==
    /\ ChainsIdle
    /\ HistoryIdle
    /\ AuxIdle
    /\ rAddress \in AcceptedAddresses
    /\ rpc = "getBalance"
    /\ rBalance = NotCalled
    /\ rActivity = NotCalled
    /\ rResult = NotCalled

ErrorContent(prefix) == [t |-> "content", isError |-> TRUE, text |-> prefix,
                         riskScore |-> [t |-> "null", thousandths |-> 0]]

AnalyzeGetBalanceOk ==
    /\ rpc = "getBalance"
    /\ \E sei_ \in FormattedBalances : rBalance' = [t |-> "balance", sei |-> sei_]
    /\ rpc' = "getWalletActivity"
    /\ UNCHANGED <<rAddress, rActivity, rResult, chainVars, histVars, auxVars>>

AnalyzeGetBalanceFail ==
    /\ rpc = "getBalance"
    /\ rResult' = ErrorContent("Error analyzing wallet")
    /\ rpc' = "done"
    /\ UNCHANGED <<rAddress, rBalance, rActivity, chainVars, histVars, auxVars>>

\* getWalletActivity answers; the score is computed and the report returned.
AnalyzeGetActivityOk ==
    /\ rpc = "getWalletActivity"
    /\ \E a \in ActivityResults :
         /\ rActivity' = [t |-> "activity", transactionCount |-> a.transactionCount,
                          lastActivity |-> a.lastActivity]
         /\ rResult' = [t |-> "content", isError |-> FALSE, text |-> "report",
                        riskScore |-> ReportedScore(RiskScore(rAddress, rBalance, a))]
    /\ rpc' = "done"
    /\ UNCHANGED <<rAddress, rBalance, chainVars, histVars, auxVars>>

AnalyzeGetActivityFail ==
    /\ rpc = "getWalletActivity"
    /\ rResult' = ErrorContent("Error analyzing wallet")
    /\ rpc' = "done"
    /\ UNCHANGED <<rAddress, rBalance, rActivity, chainVars, histVars, auxVars>>

NextRisk ==
    \/ AnalyzeGetBalanceOk
    \/ AnalyzeGetBalanceFail
    \/ AnalyzeGetActivityOk
    \/ AnalyzeGetActivityFail

SpecRisk == InitRisk /\ [][NextRisk]_vars

\* ------------------------------------------------------------------------
\* Claims about analyze_wallet
\* ------------------------------------------------------------------------

\* C4 (as claimed): for every accepted address (0x or sei1 form), count,
\* balance and lastActivity, the risk score analyze_wallet reports is a
\* number in [0.05, 0.85].
C4_RiskScoreInRange ==
    (rResult # NotCalled /\ ~rResult.isError)
    => /\ rResult.riskScore.t = "num"
       /\ rResult.riskScore.thousandths >= 50
       /\ rResult.riskScore.thousandths <= 850

\* The part of C4 that holds: for an address of the 0x form.
RiskScoreInRangeForEvm ==
    (rResult # NotCalled /\ ~rResult.isError /\ MatchesEvm(rAddress))
    => /\ rResult.riskScore.t = "num"
       /\ rResult.riskScore.thousandths >= 50
       /\ rResult.riskScore.thousandths <= 850

\* ------------------------------------------------------------------------
\* Big integers and decimal strings
\* ------------------------------------------------------------------------
\* A bigint is its decimal digits, least significant first, with no leading
\* zero digit (0n is the empty sequence). A decimal string is a sequence of
\* digit characters, most significant first.

Reverse(q) == [i \in 1..Len(q) |-> q[Len(q) + 1 - i]]

RECURSIVE StripHighZeros(_)
StripHighZeros(b) ==
    IF Len(b) > 0 /\ b[Len(b)] = 0 THEN StripHighZeros(SubSeq(b, 1, Len(b) - 1)) ELSE b

\* BigInt(text) for a text of decimal digits.
BigIntOfString(text) ==
    StripHighZeros(Reverse([i \in 1..Len(text) |-> DigitValue(text[i], 10)]))

\* bigint.toString().
BigIntToString(b) ==
    IF Len(b) = 0 THEN <<"0">> ELSE Reverse([i \in 1..Len(b) |-> DigitChars[b[i] + 1]])

RECURSIVE BigAddCarry(_, _, _)
BigAddCarry(a, b, carry) ==
    IF Len(a) = 0 /\ Len(b) = 0
    THEN IF carry = 0 THEN <<>> ELSE <<carry>>
    ELSE LET x   == IF Len(a) > 0 THEN a[1] ELSE 0
             y   == IF Len(b) > 0 THEN b[1] ELSE 0
             sum == x + y + carry
         IN  <<sum % 10>> \o BigAddCarry(IF Len(a) > 0 THEN Tail(a) ELSE <<>>,
                                         IF Len(b) > 0 THEN Tail(b) ELSE <<>>,
                                         sum \div 10)

RECURSIVE BigMulDigit(_, _, _)
BigMulDigit(a, d, carry) ==
    IF Len(a) = 0
    THEN IF carry = 0 THEN <<>> ELSE <<carry>>
    ELSE LET p == a[1] * d + carry
         IN  <<p % 10>> \o BigMulDigit(Tail(a), d, p \div 10)

\* a * b on bigints: exact, of any size.
RECURSIVE BigMul(_, _)
BigMul(a, b) ==
    IF Len(a) = 0 \/ Len(b) = 0 THEN <<>>
    ELSE StripHighZeros(
            BigAddCarry(BigMulDigit(a, b[1], 0), <<0>> \o BigMul(a, Tail(b)), 0))

\* The decimal text of a small natural number, and the bigint of it.
RECURSIVE NatDigits(_)
NatDigits(n) == IF n = 0 THEN <<>> ELSE <<n % 10>> \o NatDigits(n \div 10)

Big(n) == NatDigits(n)

\* ------------------------------------------------------------------------
\* The chain: addresses, transactions, blocks
\* ------------------------------------------------------------------------

Evm(tail) == <<"0","x">> \o Repeat("0", EvmBodyLen - 4) \o tail

\* Three parties; the node and callers write the same address in several casings.
ALower == Evm(<<"0","0","a","b">>)

AMixed == Evm(<<"0","0","A","b">>)

AUpper == Evm(<<"0","0","A","B">>)

BLower == Evm(<<"0","0","c","d">>)

BUpper == Evm(<<"0","0","C","D">>)

CLower == Evm(<<"0","0","e","f">>)

\* `to: null` of a contract creation.
NullAddress == <<"null">>

\* `gasPrice: undefined`.
NoGasPrice == <<"undefined">>

\* The known selectors (call data is a sequence of 4-byte words in lower-case hex).
SelTransfer == "a9059cbb"

SelTransferFrom == "23b872dd"

SelSwapExactETH == "7ff36ab5"

SelSwapExactTokens == "38ed1739"

\* Transactions as the node returns them, each with the receipt the node holds.
TxPay ==
    [from |-> ALower, to |-> CLower, input |-> <<>>, value |-> Big(5),
     gasPrice |-> Big(1000000000), gas |-> Big(30000),
     receipt |-> [gasUsed |-> Big(21000), status |-> "success"]]

TxTokenIn ==
    [from |-> BUpper, to |-> AUpper, input |-> <<SelTransfer, "000000ab", "00000064">>,
     value |-> Big(0), gasPrice |-> NoGasPrice, gas |-> Big(90000),
     receipt |-> [gasUsed |-> Big(52341), status |-> "reverted"]]

TxUnrelated ==
    [from |-> CLower, to |-> CLower, input |-> <<"deadbeef">>, value |-> Big(1),
     gasPrice |-> Big(7), gas |-> Big(50000),
     receipt |-> [gasUsed |-> Big(40000), status |-> "success"]]

TxCreate ==
    [from |-> AUpper, to |-> NullAddress, input |-> <<"60806040", SelTransfer>>,
     value |-> Big(0), gasPrice |-> Big(2000000001), gas |-> Big(2000000000),
     receipt |-> [gasUsed |-> Big(1999999999), status |-> "success"]]

TxSwap ==
    [from |-> CLower, to |-> BLower, input |-> <<SelSwapExactETH, "00000001">>,
     value |-> Big(9), gasPrice |-> Big(0), gas |-> Big(200000),
     receipt |-> [gasUsed |-> Big(150000), status |-> "success"]]

\* The blocks a chain is made of.
BlockShapes ==
    { <<>>,
      <<TxPay>>,
      <<TxUnrelated, TxTokenIn>>,
      <<TxTokenIn, TxCreate, TxSwap, TxPay>> }

\* block.timestamp of block b, in seconds.
BlockTimestamp(b) == 1700000000 + 2 * b

\* The hash of the i-th transaction of block b.
TxHash(b, i) == <<b, i>>

\* ------------------------------------------------------------------------
\* getTransactionHistory and getWalletActivity (services/transactions.ts)
\* ------------------------------------------------------------------------
\* A limit is a JavaScript number counted in tenths (2.5 is Num(25)), or NaN.

Absent == <<"absent">>

\* Number(text) for the texts of RestLimitParams: an optional minus sign,
\* digits and at most one fractional digit; NaN for any other text.
NumberOfText(text) ==
    LET neg  == Len(text) > 0 /\ text[1] = "-"
        body == IF neg THEN Tail(text) ELSE text
        n    == IntPartLen(body)
        int  == ParseDigits(body, 10, FALSE, 0).val
        rest == DropChars(body, n)
        sign == IF neg THEN -1 ELSE 1
    IN  IF n = 0 THEN NaN
        ELSE IF Len(rest) = 0 THEN Num(sign * int * 10)
        ELSE IF Len(rest) = 2 /\ rest[1] = "." /\ DigitValue(rest[2], 10) >= 0
             THEN Num(sign * (int * 10 + DigitValue(rest[2], 10)))
        ELSE NaN

DefaultLimit == 10

\* GET /getTransactionHistory: `limit ? Number(limit) : 10`.
RestLimit(param) ==
    IF param = Absent \/ Len(param) = 0 THEN Num(DefaultLimit * 10) ELSE NumberOfText(param)

ToolMinLimit == 1

ToolMaxLimit == 50

\* get_transaction_history: Math.min(Math.max(1, limit), 50), limit = 10 by
\* default; the argument is undefined or a number (in tenths).
ToolLimit(arg) ==
    LET l == IF arg = Undefined THEN DefaultLimit * 10 ELSE arg.v
        a == IF l > ToolMinLimit * 10 THEN l ELSE ToolMinLimit * 10
    IN  Num(IF a < ToolMaxLimit * 10 THEN a ELSE ToolMaxLimit * 10)

ActivityLimit == 5

\* A loop guard that lets one record too many through (<= for <).
LimitAllows_OffByOne(n, lim) == lim.t = "num" /\ n * 10 <= lim.v

\* `transactions.length < limit`: false when limit is NaN.
LimitAllows(n, lim) == lim.t = "num" /\ n * 10 < lim.v

\* A comparison of the addresses as written.
IsInvolved_CaseSensitive(tx, addr) ==
    \/ tx.from = addr
    \/ tx.to = addr

\* `txObj.from?.toLowerCase() === address.toLowerCase() || txObj.to?.toLowerCase() === ...`
IsInvolved(tx, addr) ==
    \/ ToLowerCase(tx.from) = ToLowerCase(addr)
    \/ (tx.to # NullAddress /\ ToLowerCase(tx.to) = ToLowerCase(addr))

ScanWindow == 100

\* A scan window as tall as the chain (no cap at 100).
BlocksToSearch_Uncapped(latest) == latest

\* Math.min(100, Number(latestBlock)).
BlocksToSearch(latest) == IF latest < ScanWindow THEN latest ELSE ScanWindow

\* `input.includes(selector)` on call data held as 4-byte words.
InputIncludes(input, selector) == \E i \in 1..Len(input) : input[i] = selector

\* The classified type of a transaction.
TxType(tx) ==
    IF tx.to = NullAddress THEN "contract"
    ELSE IF Len(tx.input) > 0
         THEN IF InputIncludes(tx.input, SelTransfer) \/ InputIncludes(tx.input, SelTransferFrom)
              THEN "transfer"
              ELSE IF InputIncludes(tx.input, SelSwapExactETH)
                      \/ InputIncludes(tx.input, SelSwapExactTokens)
                   THEN "swap"
                   ELSE "contract"
         ELSE "transfer"

\* `txObj.gasPrice || '0'`, then `.toString()`: 0n and undefined give '0'.
GasPriceText(tx) ==
    IF tx.gasPrice = NoGasPrice \/ Len(tx.gasPrice) = 0
    THEN <<"0">>
    ELSE BigIntToString(tx.gasPrice)

\* A fee multiplied in floating point: digits beyond the 16th are lost.
ComputeFee_Float(gasUsedText, gasPriceText) ==
    LET exact == BigMul(BigIntOfString(gasUsedText), BigIntOfString(gasPriceText))
        lost  == IF Len(exact) > 16 THEN Len(exact) - 16 ELSE 0
    IN  BigIntToString(StripHighZeros(
            [i \in 1..Len(exact) |-> IF i <= lost THEN 0 ELSE exact[i]]))

\* `(BigInt(gasUsed) * BigInt(gasPrice)).toString()`.
ComputeFee(gasUsedText, gasPriceText) ==
    BigIntToString(BigMul(BigIntOfString(gasUsedText), BigIntOfString(gasPriceText)))

\* The record pushed for the i-th transaction of block b; receiptOk tells
\* whether getTransactionReceipt answered.
MakeRecord(b, i, receiptOk) ==
    LET tx      == blocks[b][i]
        gasUsed == IF receiptOk THEN BigIntToString(tx.receipt.gasUsed) ELSE <<"0">>
        status  == IF receiptOk /\ tx.receipt.status # "success" THEN "failed" ELSE "success"
    IN  [hash |-> TxHash(b, i),
         from |-> tx.from,
         to |-> tx.to,
         value |-> BigIntToString(tx.value),
         gasUsed |-> gasUsed,
         gasPrice |-> GasPriceText(tx),
         blockNumber |-> b,
         timestamp |-> BlockTimestamp(b),
         status |-> status,
         type |-> TxType(tx),
         fee |-> ComputeFee(gasUsed, GasPriceText(tx))]

\* A comparator that sorts oldest first.
HistoryComparator_Ascending(a, b) == a.blockNumber - b.blockNumber

\* `(a, b) => b.blockNumber - a.blockNumber`.
HistoryComparator(a, b) == b.blockNumber - a.blockNumber

\* Array.prototype.sort is stable: rec goes after every element that the
\* comparator does not order after it.
RECURSIVE InsertSorted(_, _)
InsertSorted(sorted, rec) ==
    IF Len(sorted) = 0 THEN <<rec>>
    ELSE IF HistoryComparator(sorted[1], rec) <= 0
         THEN <<sorted[1]>> \o InsertSorted(Tail(sorted), rec)
         ELSE <<rec>> \o sorted

RECURSIVE SortRecords(_)
SortRecords(recs) ==
    IF Len(recs) = 0 THEN <<>>
    ELSE InsertSorted(SortRecords(SubSeq(recs, 1, Len(recs) - 1)), recs[Len(recs)])

Min(S) == CHOOSE x \in S : \A y \in S : x <= y

\* The head of the block loop at block b with the records recs: fetch block
\* b, or leave the loop.
LoopHead(b, recs, start) ==
    IF b > start /\ LimitAllows(Len(recs), hLimit)
    THEN [pc |-> "block", b |-> b, i |-> 0, recs |-> recs]
    ELSE [pc |-> "returned", b |-> b, i |-> 0, recs |-> recs]

\* A transaction loop that asks for the receipt of every involved transaction.
TxLoop_Unguarded(b, i, recs) ==
    LET involved == { j \in i..Len(blocks[b]) : IsInvolved(blocks[b][j], hAddress) }
    IN  IF involved # {}
        THEN [pc |-> "receipt", b |-> b, i |-> Min(involved), recs |-> recs]
        ELSE LoopHead(b - 1, recs, startBlock)

\* The transaction loop of block b from index i on: the next involved
\* transaction has its receipt fetched, if the limit allows one more record;
\* otherwise the block is finished and the block loop goes on.
TxLoop(b, i, recs) ==
    LET involved == { j \in i..Len(blocks[b]) : IsInvolved(blocks[b][j], hAddress) }
    IN  IF involved # {} /\ LimitAllows(Len(recs), hLimit)
        THEN [pc |-> "receipt", b |-> b, i |-> Min(involved), recs |-> recs]
        ELSE LoopHead(b - 1, recs, startBlock)

\* The scan moves on; when the loop is left the records are sorted in place
\* and returned with their count.
Proceed(nxt) ==
    /\ hpc' = nxt.pc
    /\ blockNum' = nxt.b
    /\ fetches' = IF nxt.pc = "block" THEN fetches + 1 ELSE fetches
    /\ txIndex' = nxt.i
    /\ IF nxt.pc = "returned"
       THEN /\ transactions' = SortRecords(nxt.recs)
            /\ history' = [t |-> "return", transactions |-> SortRecords(nxt.recs),
                           totalCount |-> Len(nxt.recs)]
       ELSE /\ transactions' = nxt.recs
            /\ history' = history

\* ---- the chains and the calls

MaxHeight == 2

\* A chain taller than the scan window.
TallHeight == ScanWindow + 1

\* Heights below the scan window, and one above it.
Heights == (0..MaxHeight) \cup {TallHeight}

\* The blocks that may hold transactions: all of a short chain; of a tall
\* chain the oldest block of the window and the block just below the window.
BusyBlocks(latest) ==
    IF latest <= MaxHeight THEN 0..latest
    ELSE {latest - ScanWindow + 1, latest - ScanWindow}

\* The genesis block holds no transaction or a single payment.
ShapesOf(b) == IF b = 0 THEN {<<>>, <<TxPay>>} ELSE BlockShapes

ChainContents(latest) ==
    { [b \in 0..latest |-> IF b \in BusyBlocks(latest) THEN f[b] ELSE <<>>] :
        f \in { g \in [BusyBlocks(latest) -> BlockShapes] :
                   \A b \in BusyBlocks(latest) : g[b] \in ShapesOf(b) } }

QueryAddresses == {AMixed, BLower}

\* The number of transactions of the chain sent by addr.
SentCount(chain, latest, addr) ==
    Cardinality({ <<b, i>> \in (0..latest) \X (1..4) :
                    /\ i <= Len(chain[b])
                    /\ ToLowerCase(chain[b][i].from) = ToLowerCase(addr) })

\* The transaction counts the node may report: never fewer than the
\* transactions the address has sent (a contract account counts from 1).
Nonces == {0, 1, 10, 11, 100, 101}

RestLimitParams ==
    { Absent, <<"0">>, <<"1">>, <<"2">>, <<"-","1">>, <<"2",".","5">>, <<"a","b","c">> }

\* The limit argument of the tool, in tenths.
ToolLimitArgs == { Undefined, Num(0), Num(25) }

InitHistory ==
    /\ ChainsIdle
    /\ RiskIdle
    /\ AuxIdle
    /\ latestBlock \in Heights
    /\ blocks \in ChainContents(latestBlock)
    /\ hAddress \in QueryAddresses
    /\ entry \in {"rest", "tool", "activity"}
    /\ nonce \in { n \in Nonces \cup {SentCount(blocks, latestBlock, hAddress)} :
                    /\ n >= SentCount(blocks, latestBlock, hAddress)
                    /\ entry # "activity" => n = SentCount(blocks, latestBlock, hAddress) }
    /\ hLimit = NaN
    /\ hpc = "start"
    /\ blockNum = 0
    /\ startBlock = 0
    /\ txIndex = 0
    /\ transactions = <<>>
    /\ history = NotCalled
    /\ outcome = NotCalled
    /\ fetches = 0
    /\ unread = {}
    /\ skipped = FALSE

others == <<chainVars, riskVars, auxVars>>

\* GET /getTransactionHistory converts its limit parameter and calls the service.
StartRest ==
    /\ hpc = "start" /\ entry = "rest"
    /\ \E param \in RestLimitParams : hLimit' = RestLimit(param)
    /\ hpc' = "height"
    /\ UNCHANGED <<latestBlock, blocks, nonce, entry, hAddress, blockNum, startBlock, fetches, unread, skipped,
                   txIndex, transactions, history, outcome, others>>

\* The get_transaction_history tool clamps its limit and calls the service.
StartTool ==
    /\ hpc = "start" /\ entry = "tool"
    /\ \E arg \in ToolLimitArgs : hLimit' = ToolLimit(arg)
    /\ hpc' = "height"
    /\ UNCHANGED <<latestBlock, blocks, nonce, entry, hAddress, blockNum, startBlock, fetches, unread, skipped,
                   txIndex, transactions, history, outcome, others>>

\* getWalletActivity asks for the transaction count.
StartActivity ==
    /\ hpc = "start" /\ entry = "activity"
    /\ hpc' = "count"
    /\ UNCHANGED <<latestBlock, blocks, nonce, entry, hAddress, hLimit, blockNum, startBlock, fetches, unread, skipped,
                   txIndex, transactions, history, outcome, others>>

\* getTransactionCount answers; getWalletActivity calls getTransactionHistory(.., 5).
TransactionCountOk ==
    /\ hpc = "count"
    /\ hLimit' = Num(ActivityLimit * 10)
    /\ hpc' = "height"
    /\ UNCHANGED <<latestBlock, blocks, nonce, entry, hAddress, blockNum, startBlock, fetches, unread, skipped,
                   txIndex, transactions, history, outcome, others>>

\* getTransactionCount fails; getWalletActivity rethrows.
TransactionCountFail ==
    /\ hpc = "count"
    /\ outcome' = [t |-> "throw", message |-> "Failed to fetch wallet activity"]
    /\ hpc' = "done"
    /\ UNCHANGED <<latestBlock, blocks, nonce, entry, hAddress, hLimit, blockNum, startBlock, fetches, unread, skipped,
                   txIndex, transactions, history, others>>

\* getBlockNumber answers: the window is set and the block loop entered.
GetBlockNumberOk ==
    /\ hpc = "height"
    /\ startBlock' = latestBlock - BlocksToSearch(latestBlock)
    /\ Proceed(LoopHead(latestBlock, <<>>, latestBlock - BlocksToSearch(latestBlock)))
    /\ UNCHANGED <<latestBlock, blocks, nonce, entry, hAddress, hLimit, outcome, unread, skipped, others>>

\* getBlockNumber fails: the outer catch rethrows.
GetBlockNumberFail ==
    /\ hpc = "height"
    /\ history' = [t |-> "throw", message |-> "Failed to fetch transaction history"]
    /\ hpc' = "threw"
    /\ UNCHANGED <<latestBlock, blocks, nonce, entry, hAddress, hLimit, blockNum, startBlock, fetches, unread, skipped,
                   txIndex, transactions, outcome, others>>

\* getBlock answers: the block's transactions are walked up to the first
\* one whose receipt is needed.
GetBlockOk ==
    /\ hpc = "block"
    /\ Proceed(TxLoop(blockNum, 1, transactions))
    /\ UNCHANGED <<latestBlock, blocks, nonce, entry, hAddress, hLimit, startBlock,
                   outcome, unread, skipped, others>>

\* A block loop without its catch: a failed getBlock reaches the outer catch.
GetBlockFail_Rethrows ==
    /\ hpc = "block"
    /\ history' = [t |-> "throw", message |-> "Failed to fetch transaction history"]
    /\ hpc' = "threw"
    /\ UNCHANGED <<latestBlock, blocks, nonce, entry, hAddress, hLimit, blockNum, startBlock,
                   fetches, unread, skipped, txIndex, transactions, outcome, others>>

\* getBlock fails: the block is skipped.
GetBlockFail ==
    /\ hpc = "block"
    /\ Proceed(LoopHead(blockNum - 1, transactions, startBlock))
    /\ skipped' = TRUE
    /\ UNCHANGED <<latestBlock, blocks, nonce, entry, hAddress, hLimit, startBlock,
                   outcome, unread, others>>

\* getTransactionReceipt answers: the record is pushed and the walk goes on.
GetReceiptOk ==
    /\ hpc = "receipt"
    /\ Proceed(TxLoop(blockNum, txIndex + 1,
                      Append(transactions, MakeRecord(blockNum, txIndex, TRUE))))
    /\ UNCHANGED <<latestBlock, blocks, nonce, entry, hAddress, hLimit, startBlock,
                   outcome, unread, skipped, others>>

\* A receipt catch that drops the transaction.
GetReceiptFail_Skips ==
    /\ hpc = "receipt"
    /\ Proceed(TxLoop(blockNum, txIndex + 1, transactions))
    /\ unread' = unread \cup {TxHash(blockNum, txIndex)}
    /\ UNCHANGED <<latestBlock, blocks, nonce, entry, hAddress, hLimit, startBlock,
                   outcome, skipped, others>>

\* getTransactionReceipt fails: the record is pushed with gasUsed '0' and
\* status 'success'.
GetReceiptFail ==
    /\ hpc = "receipt"
    /\ Proceed(TxLoop(blockNum, txIndex + 1,
                      Append(transactions, MakeRecord(blockNum, txIndex, FALSE))))
    /\ unread' = unread \cup {TxHash(blockNum, txIndex)}
    /\ UNCHANGED <<latestBlock, blocks, nonce, entry, hAddress, hLimit, startBlock,
                   outcome, skipped, others>>

\* The route or the tool answers with the history.
RespondHistory ==
    /\ hpc = "returned" /\ entry \in {"rest", "tool"}
    /\ outcome' = IF entry = "rest"
                  THEN [t |-> "response", status |-> 200, body |-> history]
                  ELSE [t |-> "content", isError |-> FALSE, body |-> history]
    /\ hpc' = "done"
    /\ UNCHANGED <<latestBlock, blocks, nonce, entry, hAddress, hLimit, blockNum, startBlock, fetches, unread, skipped,
                   txIndex, transactions, history, others>>

\* The route or the tool answers with the error.
RespondHistoryError ==
    /\ hpc = "threw" /\ entry \in {"rest", "tool"}
    /\ outcome' = IF entry = "rest"
                  THEN [t |-> "response", status |-> 500, body |-> history]
                  ELSE [t |-> "content", isError |-> TRUE, body |-> history]
    /\ hpc' = "done"
    /\ UNCHANGED <<latestBlock, blocks, nonce, entry, hAddress, hLimit, blockNum, startBlock, fetches, unread, skipped,
                   txIndex, transactions, history, others>>

ActivityRecent(recs) ==
    [i \in 1..Len(recs) |-> [hash |-> recs[i].hash, type |-> recs[i].type,
                             amount |-> recs[i].value, timestamp |-> recs[i].timestamp]]

\* The range of Math.random() * (count > 100 ? 30 : count > 10 ? 90 : 180).
EstimateRange(transactionCount) ==
    IF transactionCount > 100 THEN 30 ELSE IF transactionCount > 10 THEN 90 ELSE 180

\* The values of Math.floor(Math.random() * range) the model draws: the ends
\* of 0..range-1 and their neighbours.
RandomFloors(range) == {0, 1, range - 2, range - 1}

\* Math.min(365, floored), without the floor at 1.
DaysAgo_Unfloored(floored) == IF floored < 365 THEN floored ELSE 365

\* Math.max(1, Math.min(365, floored)).
DaysAgo(floored) ==
    LET capped == IF floored < 365 THEN floored ELSE 365
    IN  IF capped > 1 THEN capped ELSE 1

\* A lastActivity taken from the last record of the list.
LastActivityOf_Oldest(recs, transactionCount, floored) ==
    IF Len(recs) > 0
    THEN [t |-> "time", at |-> recs[Len(recs)].timestamp, daysAgo |-> 0]
    ELSE IF transactionCount > 0
         THEN [t |-> "estimate", at |-> 0, daysAgo |-> DaysAgo(floored)]
         ELSE [t |-> "null", at |-> 0, daysAgo |-> 0]

\* A lastActivity that is estimated whatever the transaction count.
LastActivityOf_AlwaysEstimated(recs, transactionCount, floored) ==
    IF Len(recs) > 0
    THEN [t |-> "time", at |-> recs[1].timestamp, daysAgo |-> 0]
    ELSE [t |-> "estimate", at |-> 0, daysAgo |-> DaysAgo(floored)]

\* lastActivity: the first record's timestamp, else an estimate some days
\* back when the count is above 0, else null.
LastActivityOf(recs, transactionCount, floored) ==
    IF Len(recs) > 0
    THEN [t |-> "time", at |-> recs[1].timestamp, daysAgo |-> 0]
    ELSE IF transactionCount > 0
         THEN [t |-> "estimate", at |-> 0, daysAgo |-> DaysAgo(floored)]
         ELSE [t |-> "null", at |-> 0, daysAgo |-> 0]

\* getWalletActivity has the history and returns its summary.
ActivityFinish ==
    /\ hpc = "returned" /\ entry = "activity"
    /\ \E floored \in RandomFloors(EstimateRange(nonce)) :
         /\ (Len(history.transactions) > 0 \/ nonce = 0) => floored = 0
         /\ outcome' =
              [t |-> "return",
               transactionCount |-> nonce,
               lastActivity |-> LastActivityOf(history.transactions, nonce, floored),
               recentTransactions |-> ActivityRecent(history.transactions)]
    /\ hpc' = "done"
    /\ UNCHANGED <<latestBlock, blocks, nonce, entry, hAddress, hLimit, blockNum, startBlock, fetches, unread, skipped,
                   txIndex, transactions, history, others>>

\* getTransactionHistory threw: getWalletActivity rethrows.
ActivityHistoryThrew ==
    /\ hpc = "threw" /\ entry = "activity"
    /\ outcome' = [t |-> "throw", message |-> "Failed to fetch wallet activity"]
    /\ hpc' = "done"
    /\ UNCHANGED <<latestBlock, blocks, nonce, entry, hAddress, hLimit, blockNum, startBlock, fetches, unread, skipped,
                   txIndex, transactions, history, others>>

Next ==
    \/ StartRest
    \/ StartTool
    \/ StartActivity
    \/ TransactionCountOk
    \/ TransactionCountFail
    \/ GetBlockNumberOk
    \/ GetBlockNumberFail
    \/ GetBlockOk
    \/ GetBlockFail
    \/ GetReceiptOk
    \/ GetReceiptFail
    \/ RespondHistory
    \/ RespondHistoryError
    \/ ActivityFinish
    \/ ActivityHistoryThrew

Spec == InitHistory /\ [][Next]_vars

\* ------------------------------------------------------------------------
\* Claims about getTransactionHistory and getWalletActivity
\* ------------------------------------------------------------------------

Returned == history # NotCalled /\ history.t = "return"

\* The block numbers the scan window covers.
WindowBlocks == (latestBlock - BlocksToSearch(latestBlock) + 1)..latestBlock

\* Some transaction of the scan window involves the queried address.
WindowInvolves ==
    \E b \in WindowBlocks : \E i \in 1..Len(blocks[b]) :
        LET tx == blocks[b][i]
        IN  \/ ToLowerCase(tx.from) = ToLowerCase(hAddress)
            \/ ToLowerCase(tx.to) = ToLowerCase(hAddress)

C2_SortedDescending ==
    Returned => \A i \in 1..(Len(history.transactions) - 1) :
                    history.transactions[i].blockNumber >=
                    history.transactions[i + 1].blockNumber

\* C2 witness: a result with records of two different blocks, one of them
\* pushed after its receipt fetch failed.
C2_Witness ==
    /\ Returned
    /\ Len(history.transactions) >= 2
    /\ history.transactions[1].blockNumber >
       history.transactions[Len(history.transactions)].blockNumber
    /\ \E i \in 1..Len(history.transactions) :
          /\ history.transactions[i].gasUsed = <<"0">>
          /\ blocks[history.transactions[i].hash[1]][history.transactions[i].hash[2]]
                .receipt.gasUsed # <<>>

\* C3 (as claimed): when the transaction count is 0, getWalletActivity
\* returns lastActivity null and no recent transaction, whatever the scanned
\* blocks contain.
C3_ZeroCountIsInactive ==
    (entry = "activity" /\ outcome # NotCalled /\ outcome.t = "return" /\ nonce = 0)
    => /\ outcome.lastActivity.t = "null"
       /\ outcome.recentTransactions = <<>>

\* C3 (amended): when the transaction count is 0 and the scan collected no
\* transaction involving the address (as it does whenever no transaction of
\* the window involves it), getWalletActivity returns lastActivity null and
\* no recent transaction.
C3_ZeroCountAndNoMatchIsInactive ==
    (entry = "activity" /\ outcome # NotCalled /\ outcome.t = "return" /\ nonce = 0)
    => /\ ~WindowInvolves => Len(history.transactions) = 0
       /\ Len(history.transactions) = 0
          => /\ outcome.lastActivity.t = "null"
             /\ outcome.recentTransactions = <<>>
             /\ outcome.transactionCount = 0

\* C3 witness: count 0, a window that holds transactions of other parties
\* only, and the summary returned with lastActivity null.
C3_Witness ==
    /\ entry = "activity" /\ outcome # NotCalled /\ outcome.t = "return"
    /\ nonce = 0
    /\ ~WindowInvolves
    /\ \E b \in WindowBlocks : Len(blocks[b]) > 0
    /\ outcome.lastActivity.t = "null"

\* The value of a decimal text modulo m.
RECURSIVE TextMod(_, _, _)
TextMod(text, m, acc) ==
    IF Len(text) = 0 THEN acc
    ELSE TextMod(Tail(text), m, (acc * 10 + DigitValue(text[1], 10)) % m)

\* Pairwise coprime moduli whose product exceeds 10^20.
FeeModuli == {10007, 10009, 10037, 10039, 10061}

\* fee is the decimal text of gasUsed * gasPrice: a text of digits with no
\* leading zero, below 10^20 like the product of two numbers below 10^10,
\* and congruent to the product modulo each of the moduli (so equal to it).
IsExactProduct(fee, gasUsed, gasPrice) ==
    /\ Len(gasUsed) <= 10 /\ Len(gasPrice) <= 10
    /\ Len(fee) >= 1 /\ Len(fee) <= 20
    /\ \A i \in 1..Len(fee) : DigitValue(fee[i], 10) >= 0
    /\ Len(fee) > 1 => fee[1] # "0"
    /\ \A m \in FeeModuli :
          TextMod(fee, m, 0) = (TextMod(gasUsed, m, 0) * TextMod(gasPrice, m, 0)) % m

\* C5: in every record getTransactionHistory returns, fee is exactly the
\* integer product of the record's gasUsed and gasPrice (21000 and
\* 1000000000 give 21000000000000).
C5_FeeIsExactProduct ==
    hpc = "returned" => \A i \in 1..Len(history.transactions) :
        LET r == history.transactions[i]
        IN  /\ IsExactProduct(r.fee, r.gasUsed, r.gasPrice)
            /\ ( /\ r.gasUsed = <<"2","1","0","0","0">>
                 /\ r.gasPrice = <<"1","0","0","0","0","0","0","0","0","0">> )
               => r.fee = <<"2","1","0","0","0","0","0","0","0","0","0","0","0","0">>

\* C5 witness: a returned record with gasUsed 21000, gasPrice 1000000000 and
\* fee 21000000000000, next to one whose fee has 19 digits.
C5_Witness ==
    /\ Returned
    /\ \E i \in 1..Len(history.transactions) :
          /\ history.transactions[i].gasUsed = <<"2","1","0","0","0">>
          /\ history.transactions[i].fee =
                <<"2","1","0","0","0","0","0","0","0","0","0","0","0","0">>
    /\ \E i \in 1..Len(history.transactions) : Len(history.transactions[i].fee) = 19

\* ------------------------------------------------------------------------
\* serializeBigInt (REST server)
\* ------------------------------------------------------------------------

\* JavaScript values: a bigint is a sign and a magnitude; an array holds its
\* items; an object holds its own enumerable properties in enumeration order
\* and its prototype.
JsBigInt(neg, mag) == [k |-> "bigint", neg |-> neg, mag |-> mag]

JsNumber(n) == [k |-> "number", n |-> n]

JsString(text) == [k |-> "string", text |-> text]

JsBoolean(b) == [k |-> "boolean", b |-> b]

JsNull == [k |-> "null"]

JsArray(items) == [k |-> "array", items |-> items]

ObjectPrototype == [k |-> "Object.prototype"]

JsObject(props) == [k |-> "object", props |-> props, proto |-> ObjectPrototype]

Prop(key, val) == [key |-> key, val |-> val]

\* bigint.toString() of a signed bigint.
BigIntText(b) ==
    IF b.neg /\ Len(b.mag) > 0 THEN <<"-">> \o BigIntToString(b.mag)
    ELSE BigIntToString(b.mag)

\* `res[key] = value` that always defines an own property.
SetProperty_DefineOwn(res, key, value) ==
    [res EXCEPT !.props = Append(@, Prop(key, value))]

\* `res[key] = value` on an object created by `{}`: the key __proto__ runs
\* the setter inherited from Object.prototype, which replaces the prototype
\* when the value is an object or null and does nothing otherwise; any other
\* key becomes an own property.
SetProperty(res, key, value) ==
    IF key = "__proto__" /\ res.proto.k # "null"
    THEN IF value.k \in {"object", "array", "null"}
         THEN [res EXCEPT !.proto = value]
         ELSE res
    ELSE [res EXCEPT !.props = Append(@, Prop(key, value))]

RECURSIVE serializeBigInt(_)
RECURSIVE SerializeProps(_, _, _)

\* for (const key in obj) res[key] = serializeBigInt(obj[key]), from the i-th key on.
SerializeProps(props, i, res) ==
    IF i > Len(props) THEN res
    ELSE SerializeProps(props, i + 1,
                        SetProperty(res, props[i].key, serializeBigInt(props[i].val)))

serializeBigInt(obj) ==
    IF obj.k = "bigint" THEN JsString(BigIntText(obj))
    ELSE IF obj.k = "array"
         THEN JsArray([i \in 1..Len(obj.items) |-> serializeBigInt(obj.items[i])])
    ELSE IF obj.k = "object"
         THEN SerializeProps(obj.props, 1, JsObject(<<>>))
    ELSE obj

\* ---- the values passed

LeafValues ==
    { JsBigInt(FALSE, <<>>),
      JsBigInt(FALSE, <<3,9,9,0,4,7,4,5,2,9,9,1,7,0,0,9>>),
      JsBigInt(TRUE, <<0,9,8,7,6,5,4,3,2,1,0,9,8,7,6,5,4,3,2,1>>),
      JsNumber(7), JsString(<<"7">>), JsBoolean(TRUE), JsNull }

\* Own keys in enumeration order (integer keys first).
KeyLists ==
    { <<>>, <<"a">>, <<"a", "b">>, <<"__proto__">>, <<"a", "__proto__">>, <<"0", "a">> }

ObjectsOver(keys, vals) ==
    { JsObject([i \in 1..Len(keys) |-> Prop(keys[i], f[i])]) : f \in [1..Len(keys) -> vals] }

Level1Values ==
    { JsArray(<<>>) } \cup { JsArray(<<x>>) : x \in LeafValues } \cup
    { JsArray(<<x, y>>) : x \in LeafValues, y \in LeafValues } \cup
    UNION { ObjectsOver(keys, LeafValues) : keys \in KeyLists }

\* A value one level around x, next to a leaf.
Wrap(x) ==
    { JsArray(<<x>>), JsObject(<<Prop("a", x)>>), JsObject(<<Prop("__proto__", x)>>) } \cup
    { JsArray(<<x, y>>) : y \in LeafValues } \cup
    { JsObject(<<Prop("a", y), Prop("b", x)>>) : y \in LeafValues }

Level2Values == UNION { Wrap(x) : x \in Level1Values }

Level3Values ==
    UNION { { JsArray(<<x>>), JsObject(<<Prop("a", x)>>) } : x \in Level2Values }

SerializeInputs == LeafValues \cup Level1Values \cup Level2Values \cup Level3Values

InitSerialize ==
    /\ MoreIdle
    /\ ChainsIdle
    /\ RiskIdle
    /\ HistoryIdle
    /\ AddressIdle
    /\ RestIdle
    /\ SseIdle
    /\ GeminiIdle
    /\ ContractIdle
    /\ sValue \in SerializeInputs
    /\ sResult = NotCalled

CallSerializeBigInt ==
    /\ sResult = NotCalled
    /\ sResult' = serializeBigInt(sValue)
    /\ UNCHANGED <<sValue, chainVars, riskVars, histVars, addrVars, restVars, contractVars, sseVars, geminiVars, moreVars>>

NextSerialize == CallSerializeBigInt

SpecSerialize == InitSerialize /\ [][NextSerialize]_vars

\* ---- claims about serializeBigInt

\* The decimal text of a signed magnitude, most significant digit first.
RECURSIVE DecimalOf(_)
DecimalOf(mag) ==
    IF Len(mag) = 0 THEN <<>>
    ELSE DecimalOf(Tail(mag)) \o <<DigitChars[mag[1] + 1]>>

\* r is v with every bigint replaced by its decimal string: the same kind of
\* value at every place, arrays of the same length and order, objects with
\* the same keys in the same order, every other leaf equal.
RECURSIVE SameShapeNoBigInt(_, _)
SameShapeNoBigInt(v, r) ==
    IF v.k = "bigint"
    THEN /\ r.k = "string"
         /\ r.text = IF Len(v.mag) = 0 THEN <<"0">>
                     ELSE (IF v.neg THEN <<"-">> ELSE <<>>) \o DecimalOf(v.mag)
    ELSE IF v.k = "array"
    THEN /\ r.k = "array"
         /\ Len(r.items) = Len(v.items)
         /\ \A i \in 1..Len(v.items) : SameShapeNoBigInt(v.items[i], r.items[i])
    ELSE IF v.k = "object"
    THEN /\ r.k = "object"
         /\ r.proto = ObjectPrototype
         /\ Len(r.props) = Len(v.props)
         /\ \A i \in 1..Len(v.props) :
               /\ r.props[i].key = v.props[i].key
               /\ SameShapeNoBigInt(v.props[i].val, r.props[i].val)
    ELSE r = v

\* v has an own property named __proto__ at some depth.
RECURSIVE HasProtoKey(_)
HasProtoKey(v) ==
    IF v.k = "array" THEN \E i \in 1..Len(v.items) : HasProtoKey(v.items[i])
    ELSE IF v.k = "object"
    THEN \E i \in 1..Len(v.props) :
            v.props[i].key = "__proto__" \/ HasProtoKey(v.props[i].val)
    ELSE FALSE

\* C12: serializeBigInt returns a value of the same shape (same keys, same
\* array lengths and order) in which every bigint is replaced by its decimal
\* string and every other leaf is unchanged.
C12_SameShapeNoBigInt ==
    sResult # NotCalled => SameShapeNoBigInt(sValue, sResult)

\* The same, for the values none of whose objects has an own key __proto__.
SameShapeWithoutProtoKey ==
    (sResult # NotCalled /\ ~HasProtoKey(sValue)) => SameShapeNoBigInt(sValue, sResult)

\* A nested value without a __proto__ key, holding a negative bigint two
\* levels down, was serialized.
SameShapeWithoutProtoKey_Witness ==
    /\ sResult # NotCalled
    /\ ~HasProtoKey(sValue)
    /\ sValue.k = "object"
    /\ Len(sValue.props) = 1
    /\ sValue.props[1].val.k = "array"
    /\ Len(sValue.props[1].val.items) = 2
    /\ sValue.props[1].val.items[1].k = "object"
    /\ sValue.props[1].val.items[2].k = "bigint"
    /\ sValue.props[1].val.items[2].neg

\* ------------------------------------------------------------------------
\* The REST routes (REST server)
\* ------------------------------------------------------------------------

\* A route: its path, whether the handler answers 400 to a request without
\* its parameters, the service function it calls, whether that name is bound
\* in the module, and where it converts tokenId with BigInt ("try": inside
\* the try block, "before": in a try block of its own that answers 400).
Route(path, checks, service, bound, tokenId) ==
    [path |-> path, checks |-> checks, service |-> service, bound |-> bound,
     tokenId |-> tokenId]

\* GET /getChainInfo is registered twice; the first handler always answers,
\* so the second is never run.
RouteTable ==
    << Route("/getbalance", TRUE, "getBalance", TRUE, "none"),
       Route("/isNFTOwner", TRUE, "isNFTOwner", TRUE, "try"),
       Route("/getAddressFromPrivateKey", TRUE, "getAddressFromPrivateKey", TRUE, "none"),
       Route("/getChainInfo", TRUE, "getPublicClient", TRUE, "none"),
       Route("/createWalletClient", TRUE, "getWalletClient", TRUE, "none"),
       Route("/getBlockNumber", FALSE, "getBlockNumber", TRUE, "none"),
       Route("/getBlockByNumber", TRUE, "getBlockByNumber", TRUE, "none"),
       Route("/getBlockByHash", TRUE, "getBlockByHash", TRUE, "none"),
       Route("/getLatestBlock", FALSE, "getLatestBlock", TRUE, "none"),
       Route("/readContract", FALSE, "readContract", TRUE, "none"),
       Route("/writeContract", TRUE, "writeContract", TRUE, "none"),
       Route("/isContract", TRUE, "isContract", TRUE, "none"),
       Route("/getSupportedNetworks", FALSE, "getSupportedNetworks", TRUE, "none"),
       Route("/getNetworkStatus", FALSE, "getNetworkStatus", TRUE, "none"),
       Route("/getNFTCollection", TRUE, "getNFTCollection", TRUE, "none"),
       Route("/getNFTOwnership", TRUE, "getNFTOwnership", TRUE, "none"),
       Route("/getNFTMetadata", TRUE, "getNFTMetadata", TRUE, "none"),
       Route("/getNFTHistory", TRUE, "getNFTHistory", TRUE, "none"),
       Route("/getUserNFTs", TRUE, "getUserNFTs", TRUE, "none"),
       Route("/checkNFTOwnership", TRUE, "checkNFTOwnership", TRUE, "none"),
       Route("/getNFTBalance", TRUE, "getNFTBalance", TRUE, "none"),
       Route("/getTransaction", TRUE, "getTransaction", TRUE, "none"),
       Route("/getTransactionReceipt", TRUE, "getTransactionReceipt", TRUE, "none"),
       Route("/getTransactionCount", TRUE, "getTransactionCount", TRUE, "none"),
       Route("/estimateGas", TRUE, "estimateGas", TRUE, "none"),
       Route("/getChainId", FALSE, "getChainId", TRUE, "none"),
       Route("/getTransactionHistory", TRUE, "getTransactionHistory", TRUE, "none"),
       Route("/getWalletActivity", TRUE, "getWalletActivity", TRUE, "none"),
       Route("/transferSei", TRUE, "transferSei", TRUE, "none"),
       Route("/transferERC20", TRUE, "transferERC20", FALSE, "none"),
       Route("/approveERC20", TRUE, "approveERC20", FALSE, "none"),
       Route("/transferERC721", TRUE, "transferERC721", FALSE, "before"),
       Route("/transferERC1155", TRUE, "transferERC1155", FALSE, "before"),
       Route("/analyzeWallet", TRUE, "analyzeWallet", TRUE, "none"),
       Route("/gemini", TRUE, "handleGeminiFunctionCall", TRUE, "none") >>

\* What a call may throw: an Error object by name and message, or a string.
ThrownError(name, message) == [k |-> "Error", name |-> name, message |-> message]

ThrownString(text) == [k |-> "string", text |-> text]

ServiceFailures ==
    { ThrownError("Error", "Failed to fetch transaction history: timeout"),
      ThrownError("Error", "Network sei-x not supported"),
      ThrownError("TypeError", ""),
      ThrownString("execution reverted") }

\* A catch clause that hides what was thrown.
ErrorText_Hidden(thrown) == "Internal server error"

\* `error.message || String(error)`.
ErrorText(thrown) ==
    IF thrown.k = "Error"
    THEN IF thrown.message # "" THEN thrown.message ELSE thrown.name
    ELSE thrown.text

ErrorResponse(status, text) == [status |-> status, body |-> [k |-> "error", error |-> text]]

ResultResponse == [status |-> 200, body |-> [k |-> "result", error |-> ""]]

\* The catch clause every handler ends with.
CatchResponse(thrown) == ErrorResponse(500, ErrorText(thrown))

InitRest ==
    /\ MoreIdle
    /\ ChainsIdle
    /\ RiskIdle
    /\ HistoryIdle
    /\ AddressIdle
    /\ SerializeIdle
    /\ SseIdle
    /\ GeminiIdle
    /\ ContractIdle
    /\ qRoute \in 1..Len(RouteTable)
    /\ qParamsOk \in BOOLEAN
    /\ qTokenIdOk \in BOOLEAN
    /\ RouteTable[qRoute].tokenId = "none" => qTokenIdOk
    /\ qpc = "received"
    /\ qThrown = NotCalled
    /\ qResponse = NotCalled

restOthers == <<chainVars, riskVars, histVars, addrVars, serVars, contractVars, sseVars, geminiVars, moreVars>>

\* The handler's parameter check answers 400.
RouteRejects ==
    /\ qpc = "received"
    /\ RouteTable[qRoute].checks /\ ~qParamsOk
    /\ qResponse' = ErrorResponse(400, "Missing parameter")
    /\ qpc' = "done"
    /\ UNCHANGED <<qRoute, qParamsOk, qTokenIdOk, qThrown, restOthers>>

\* BigInt(tokenId) throws: 400 from the conversion's own try block, the catch
\* clause's answer when the conversion is inside the handler's try block.
RouteTokenIdFails ==
    /\ qpc = "received"
    /\ RouteTable[qRoute].checks => qParamsOk
    /\ ~qTokenIdOk
    /\ qResponse' = IF RouteTable[qRoute].tokenId = "before"
                    THEN ErrorResponse(400, "tokenId must be a valid integer string")
                    ELSE CatchResponse(ThrownError("SyntaxError", "Cannot convert to a BigInt"))
    /\ qpc' = "done"
    /\ UNCHANGED <<qRoute, qParamsOk, qTokenIdOk, qThrown, restOthers>>

\* The handler reaches the call: a name the module does not bind throws a
\* ReferenceError into the catch clause, a bound one is called and awaited.
RouteCallsService ==
    /\ qpc = "received"
    /\ RouteTable[qRoute].checks => qParamsOk
    /\ qTokenIdOk
    /\ IF RouteTable[qRoute].bound
       THEN /\ qpc' = "awaiting"
            /\ qResponse' = qResponse
       ELSE /\ qpc' = "done"
            /\ qResponse' = CatchResponse(ThrownError("ReferenceError", "service is not defined"))
    /\ UNCHANGED <<qRoute, qParamsOk, qTokenIdOk, qThrown, restOthers>>

ServiceResolves ==
    /\ qpc = "awaiting"
    /\ qResponse' = ResultResponse
    /\ qpc' = "done"
    /\ UNCHANGED <<qRoute, qParamsOk, qTokenIdOk, qThrown, restOthers>>

ServiceRejects ==
    /\ qpc = "awaiting"
    /\ \E thrown \in ServiceFailures :
         /\ qThrown' = thrown
         /\ qResponse' = CatchResponse(thrown)
    /\ qpc' = "done"
    /\ UNCHANGED <<qRoute, qParamsOk, qTokenIdOk, restOthers>>

NextRest ==
    \/ RouteRejects
    \/ RouteTokenIdFails
    \/ RouteCallsService
    \/ ServiceResolves
    \/ ServiceRejects

SpecRest == InitRest /\ [][NextRest]_vars

\* ---- claims about the REST routes

\* C13: on every route, when the service function the handler invokes fails,
\* the response has a non-200 status and the body {error: message} carrying
\* the message of the failure (the failure's string form when it has no
\* message); a failing service call never produces a 200 response.
C13_ServiceFailureIsErrorResponse ==
    qThrown # NotCalled =>
        /\ qResponse # NotCalled
        /\ qResponse.status # 200
        /\ qResponse.body.k = "error"
        /\ qThrown.k = "Error" /\ qThrown.message # "" => qResponse.body.error = qThrown.message
        /\ qThrown.k = "Error" /\ qThrown.message = "" => qResponse.body.error = qThrown.name
        /\ qThrown.k = "string" => qResponse.body.error = qThrown.text

\* C13 witness: getTransactionHistory failed under GET /getTransactionHistory
\* and the response is a 500 with the failure's message.
C13_Witness ==
    /\ qRoute # 0
    /\ RouteTable[qRoute].path = "/getTransactionHistory"
    /\ qThrown = ThrownError("Error", "Failed to fetch transaction history: timeout")
    /\ qResponse = ErrorResponse(500, "Failed to fetch transaction history: timeout")

\* ------------------------------------------------------------------------
\* The read_contract tool (tools.ts)
\* ------------------------------------------------------------------------

\* ---- JSON.parse, as a recognizer of JSON texts (numbers without fraction
\* or exponent, strings without escapes). A position is an index into the
\* text; 0 is a syntax error.

JsonSpace == {" ", "\n", "\t"}

CharAt(s, i) == IF i >= 1 /\ i <= Len(s) THEN s[i] ELSE "end"

RECURSIVE JsonSkip(_, _)
JsonSkip(s, i) == IF CharAt(s, i) \in JsonSpace THEN JsonSkip(s, i + 1) ELSE i

RECURSIVE JsonDigits(_, _)
JsonDigits(s, i) == IF IndexOf(CharAt(s, i), DigitChars) > 0 THEN JsonDigits(s, i + 1) ELSE i

\* The position after the string whose opening quote is before i.
RECURSIVE JsonStringEnd(_, _)
JsonStringEnd(s, i) ==
    IF i > Len(s) THEN 0
    ELSE IF s[i] = "\"" THEN i + 1
    ELSE IF s[i] = "\\" \/ s[i] = "\n" THEN 0
    ELSE JsonStringEnd(s, i + 1)

JsonLiteral(s, i, word) ==
    IF i + Len(word) - 1 <= Len(s) /\ SubSeq(s, i, i + Len(word) - 1) = word
    THEN i + Len(word) ELSE 0

RECURSIVE JsonValue(_, _)
RECURSIVE JsonElements(_, _)
RECURSIVE JsonMembers(_, _)

\* The position after the value that starts at or after i.
JsonValue(s, i) ==
    LET j == JsonSkip(s, i)
        c == CharAt(s, j)
    IN  IF c = "[" THEN
            IF CharAt(s, JsonSkip(s, j + 1)) = "]" THEN JsonSkip(s, j + 1) + 1
            ELSE JsonElements(s, j + 1)
        ELSE IF c = "{" THEN
            IF CharAt(s, JsonSkip(s, j + 1)) = "}" THEN JsonSkip(s, j + 1) + 1
            ELSE JsonMembers(s, j + 1)
        ELSE IF c = "\"" THEN JsonStringEnd(s, j + 1)
        ELSE IF c = "0" THEN j + 1
        ELSE IF IndexOf(c, DigitChars) > 0 THEN JsonDigits(s, j)
        ELSE IF c = "-" THEN
            IF CharAt(s, j + 1) = "0" THEN j + 2
            ELSE IF IndexOf(CharAt(s, j + 1), DigitChars) > 0 THEN JsonDigits(s, j + 1)
            ELSE 0
        ELSE IF c = "t" THEN JsonLiteral(s, j, <<"t","r","u","e">>)
        ELSE IF c = "f" THEN JsonLiteral(s, j, <<"f","a","l","s","e">>)
        ELSE IF c = "n" THEN JsonLiteral(s, j, <<"n","u","l","l">>)
        ELSE 0

\* The position after the "]" that closes the elements starting at i.
JsonElements(s, i) ==
    LET v == JsonValue(s, i)
        k == JsonSkip(s, v)
    IN  IF v = 0 THEN 0
        ELSE IF CharAt(s, k) = "," THEN JsonElements(s, k + 1)
        ELSE IF CharAt(s, k) = "]" THEN k + 1
        ELSE 0

\* The position after the "}" that closes the members starting at i.
JsonMembers(s, i) ==
    LET j == JsonSkip(s, i)
        n == IF CharAt(s, j) = "\"" THEN JsonStringEnd(s, j + 1) ELSE 0
        c == JsonSkip(s, n)
        v == IF n # 0 /\ CharAt(s, c) = ":" THEN JsonValue(s, c + 1) ELSE 0
        k == JsonSkip(s, v)
    IN  IF v = 0 THEN 0
        ELSE IF CharAt(s, k) = "," THEN JsonMembers(s, k + 1)
        ELSE IF CharAt(s, k) = "}" THEN k + 1
        ELSE 0

\* JSON.parse(text): the kind of the value parsed, or the SyntaxError thrown.
JsonParse(text) ==
    LET e == JsonValue(text, 1)
    IN  IF e # 0 /\ JsonSkip(text, e) = Len(text) + 1
        THEN [t |-> "return",
              k |-> IF CharAt(text, JsonSkip(text, 1)) = "[" THEN "array" ELSE "other"]
        ELSE [t |-> "throw", k |-> "SyntaxError"]

\* ---- the abi arguments

WellFormedAbiTexts ==
    { <<"[","]">>,
      <<" ","[","\n","]"," ">>,
      <<"[","1",",","-","2","0","]">>,
      <<"[","{","\"","n","a","m","e","\"",":","\"","f","\"","}","]">>,
      <<"[","{","\"","a","\"",":","[","t","r","u","e",",","n","u","l","l","]",",",
        "\"","b","\"",":","{","}","}",",","[","]","]">>,
      <<"{","\"","a","b","i","\"",":","[","]","}">>,
      <<"n","u","l","l">>,
      <<"\"","[","]","\"">> }

MalformedAbiTexts ==
    { <<>>,
      <<"[">>,
      <<"]">>,
      <<"[","]","]">>,
      <<"[","1",",","]">>,
      <<"[",",","1","]">>,
      <<"[","1"," ","2","]">>,
      <<"[","0","1","]">>,
      <<"[","-","]">>,
      <<"[","'","a","'","]">>,
      <<"[","\"","a","]">>,
      <<"[","{","n","a","m","e",":","1","}","]">>,
      <<"[","{","\"","a","\"","}","]">>,
      <<"[","{","\"","a","\"",":","1",",","}","]">>,
      <<"[","t","r","u","]">>,
      <<"[","N","a","N","]">>,
      <<"a","b","i">>,
      <<"[","]"," ","x">>,
      <<"{","\"","a","\"",":","[","}">> }

AbiArguments ==
    { [k |-> "array", text |-> <<>>] } \cup
    { [k |-> "string", text |-> x] : x \in WellFormedAbiTexts \cup MalformedAbiTexts }

InitContract ==
    /\ MoreIdle
    /\ ChainsIdle
    /\ RiskIdle
    /\ HistoryIdle
    /\ AddressIdle
    /\ SerializeIdle
    /\ SseIdle
    /\ GeminiIdle
    /\ RestIdle
    /\ cAbi \in AbiArguments
    /\ cChecked \in BOOLEAN
    /\ cpc = "called"
    /\ cReads = 0
    /\ cResult = NotCalled

contractOthers == <<chainVars, riskVars, histVars, addrVars, serVars, restVars, sseVars, geminiVars, moreVars>>

ToolError(kind) == [isError |-> TRUE, kind |-> kind]

ToolContent == [isError |-> FALSE, kind |-> "result"]

\* An abi handed to the contract read as it came.
ParseAbi_AsGiven(abi) == [t |-> "return", k |-> abi.k]

\* `typeof abi === 'string' ? JSON.parse(abi) : abi`.
ParseAbi(abi) ==
    IF abi.k = "string" THEN JsonParse(abi.text) ELSE [t |-> "return", k |-> "array"]

\* The arguments are checked against the schema, abi: z.array(z.any()): an
\* abi that is no array is refused before the handler runs.
SchemaRefuses ==
    /\ cpc = "called"
    /\ cChecked /\ cAbi.k # "array"
    /\ cResult' = ToolError("invalid arguments")
    /\ cpc' = "done"
    /\ UNCHANGED <<cAbi, cChecked, cReads, contractOthers>>

HandlerRuns ==
    /\ cpc = "called"
    /\ cChecked => cAbi.k = "array"
    /\ cpc' = "handler"
    /\ UNCHANGED <<cAbi, cChecked, cReads, cResult, contractOthers>>

\* The handler parses the abi: a SyntaxError goes to the catch clause,
\* otherwise services.readContract is called.
HandlerParsesAbi ==
    /\ cpc = "handler"
    /\ IF ParseAbi(cAbi).t = "throw"
       THEN /\ cResult' = ToolError("Error reading contract: SyntaxError")
            /\ cpc' = "done"
            /\ cReads' = cReads
       ELSE /\ cReads' = cReads + 1
            /\ cpc' = "reading"
            /\ cResult' = cResult
    /\ UNCHANGED <<cAbi, cChecked, contractOthers>>

ReadContractOk ==
    /\ cpc = "reading"
    /\ cResult' = ToolContent
    /\ cpc' = "done"
    /\ UNCHANGED <<cAbi, cChecked, cReads, contractOthers>>

ReadContractFail ==
    /\ cpc = "reading"
    /\ cResult' = ToolError("Error reading contract: node")
    /\ cpc' = "done"
    /\ UNCHANGED <<cAbi, cChecked, cReads, contractOthers>>

NextContract ==
    \/ SchemaRefuses
    \/ HandlerRuns
    \/ HandlerParsesAbi
    \/ ReadContractOk
    \/ ReadContractFail

SpecContract == InitContract /\ [][NextContract]_vars

\* ---- claims about read_contract

\* C14: a read_contract call whose abi is a string that is not valid JSON
\* ends in an error result of the argument check or of the parse, never of
\* the node, and issues no contract read.
C14_MalformedAbiFailsBeforeRead ==
    (cAbi # NotCalled /\ cAbi.k = "string" /\ cAbi.text \in MalformedAbiTexts)
    => /\ cReads = 0
       /\ cpc # "reading"
       /\ cpc = "done" => /\ cResult.isError
                          /\ cResult.kind \in {"invalid arguments",
                                               "Error reading contract: SyntaxError"}

\* C14 witness: the handler itself met the abi '[1,]' and answered with the
\* parse error.
C14_Witness ==
    /\ cpc = "done"
    /\ ~cChecked
    /\ cAbi = [k |-> "string", text |-> <<"[","1",",","]">>]
    /\ cResult = ToolError("Error reading contract: SyntaxError")
    /\ cReads = 0

\* The abi texts that are JSON are parsed and read with.
WellFormedAbiIsRead ==
    (cpc = "done" /\ ~cChecked /\ cAbi.k = "string" /\ cAbi.text \in WellFormedAbiTexts)
    => cReads = 1

\* ------------------------------------------------------------------------
\* The SSE sessions: GET /sse (REST server)
\* ------------------------------------------------------------------------

Connections == {1, 2}

\* The session ids clients send.
QuerySessionIds == { "alpha", "beta" }

\* req.query.sessionId: absent, empty or one of the ids.
SessionParams ==
    { [present |-> FALSE, text |-> ""] } \cup
    { [present |-> TRUE, text |-> x] : x \in QuerySessionIds \cup {""} }

\* generateSessionId(): a random id; the ids generated for different
\* connections are taken to differ.
generateSessionId(c) == IF c = 1 THEN "generated-1" ELSE "generated-2"

SessionIds == QuerySessionIds \cup { generateSessionId(c) : c \in Connections }

InitSse ==
    /\ MoreIdle
    /\ ChainsIdle
    /\ RiskIdle
    /\ HistoryIdle
    /\ AddressIdle
    /\ SerializeIdle
    /\ RestIdle
    /\ ContractIdle
    /\ GeminiIdle
    /\ server = "null"
    /\ connections = [id \in SessionIds |-> 0]
    /\ sse = [c \in Connections |-> [st |-> "none", sid |-> "", connect |-> "none"]]
    /\ request = NotCalled

sseOthers == <<chainVars, riskVars, histVars, addrVars, serVars, restVars, contractVars, geminiVars, moreVars>>

\* startServer() resolves.
ServerStarts ==
    /\ server = "null"
    /\ server' = "ready"
    /\ UNCHANGED <<connections, sse, request, sseOthers>>

\* GET /sse before the server is there: 503.
SseRefused(c) ==
    /\ server = "null"
    /\ sse[c].st = "none"
    /\ sse' = [sse EXCEPT ![c].st = "refused"]
    /\ UNCHANGED <<server, connections, request, sseOthers>>

\* A session id that is always generated.
SessionIdOf_Generated(c, param) == generateSessionId(c)

\* `req.query.sessionId?.toString() || generateSessionId()`.
SessionIdOf(c, param) ==
    IF param.present /\ param.text # "" THEN param.text ELSE generateSessionId(c)

\* GET /sse: the transport is stored under the session id and connected.
SseConnect(c) ==
    /\ server = "ready"
    /\ sse[c].st = "none"
    /\ \E param \in SessionParams :
         LET sessionId == SessionIdOf(c, param)
         IN  /\ connections' = [connections EXCEPT ![sessionId] = c]
             /\ sse' = [sse EXCEPT ![c] = [st |-> "open", sid |-> sessionId,
                                           connect |-> "pending"]]
    /\ UNCHANGED <<server, request, sseOthers>>

\* server.connect(transport) resolves: session_init is written.
SseConnectResolves(c) ==
    /\ sse[c].connect = "pending"
    /\ sse[c].st = "open"
    /\ sse' = [sse EXCEPT ![c].connect = "resolved"]
    /\ UNCHANGED <<server, connections, request, sseOthers>>

\* server.connect(transport) rejects: connections.delete(sessionId).
SseConnectFails(c) ==
    /\ sse[c].connect = "pending"
    /\ connections' = [connections EXCEPT ![sse[c].sid] = 0]
    /\ sse' = [sse EXCEPT ![c].connect = "failed"]
    /\ UNCHANGED <<server, request, sseOthers>>

\* A close handler that leaves the table as it is.
SseClose_KeepsEntry(c) ==
    /\ sse[c].st = "open"
    /\ sse' = [sse EXCEPT ![c].st = "closed"]
    /\ UNCHANGED <<server, connections, request, sseOthers>>

\* The request closes: connections.delete(sessionId).
SseClose(c) ==
    /\ sse[c].st = "open"
    /\ connections' = [connections EXCEPT ![sse[c].sid] = 0]
    /\ sse' = [sse EXCEPT ![c].st = "closed"]
    /\ UNCHANGED <<server, request, sseOthers>>

\* The session ids the table has an entry for.
ActiveIds == { id \in SessionIds : connections[id] # 0 }

\* req.query.sessionId of a POST /messages: absent, empty, an id clients
\* choose or an id the server generated.
MessageParams ==
    SessionParams \cup { [present |-> TRUE, text |-> generateSessionId(c)] : c \in Connections }

\* A fallback to some entry of the table, however many there are.
MessageSessionId_AnyEntry(param) ==
    IF param.present /\ param.text # "" THEN param.text
    ELSE IF ActiveIds # {} THEN CHOOSE id \in ActiveIds : TRUE
    ELSE ""

\* `req.query.sessionId?.toString()`, and the only key of the table when
\* that is empty and the table has one entry; "" when none is determined.
MessageSessionId(param) ==
    IF param.present /\ param.text # "" THEN param.text
    ELSE IF Cardinality(ActiveIds) = 1 THEN CHOOSE id \in ActiveIds : TRUE
    ELSE ""

MessageAnswer(param, status, handler) ==
    [route |-> "messages", param |-> param, status |-> status, handler |-> handler]

\* POST /messages: answered 503, 400 or 404, or handed to the transport of
\* the session (handler is the connection the transport belongs to).
PostMessages ==
    /\ \E param \in MessageParams :
         LET sessionId == MessageSessionId(param)
         IN  request' =
                IF server = "null" THEN MessageAnswer(param, 503, 0)
                ELSE IF sessionId = "" THEN MessageAnswer(param, 400, 0)
                ELSE IF sessionId \notin ActiveIds THEN MessageAnswer(param, 404, 0)
                ELSE MessageAnswer(param, 200, connections[sessionId])
    /\ UNCHANGED <<server, connections, sse, sseOthers>>

\* GET /health: reads the table.
GetHealth ==
    /\ request' = [route |-> "health", param |-> [present |-> FALSE, text |-> ""],
                   status |-> 200, handler |-> 0]
    /\ UNCHANGED <<server, connections, sse, sseOthers>>

\* Any REST route: none of them names the table.
RestRoute ==
    /\ \E status \in {200, 400, 500} :
         request' = [route |-> "rest", param |-> [present |-> FALSE, text |-> ""],
                     status |-> status, handler |-> 0]
    /\ UNCHANGED <<server, connections, sse, sseOthers>>

NextSse ==
    \/ ServerStarts
    \/ \E c \in Connections : SseRefused(c)
    \/ \E c \in Connections : SseConnect(c)
    \/ \E c \in Connections : SseConnectResolves(c)
    \/ \E c \in Connections : SseConnectFails(c)
    \/ \E c \in Connections : SseClose(c)
    \/ PostMessages
    \/ GetHealth
    \/ RestRoute

SpecSse == InitSse /\ [][NextSse]_vars

\* ---- claims about the sessions

\* Connection d is open and the table holds its transport under its id.
HoldsEntry(d) == sse[d].st = "open" /\ connections[sse[d].sid] = d

\* A connect, connect-failure or close event of connection c.
EventOf(c) == SseConnect(c) \/ SseConnectFails(c) \/ SseClose(c)

\* C15: an event of one connection never removes or replaces the table entry
\* of another connection that is still open, whether the session ids are
\* sent by the clients or generated.
C15_OtherEntryUntouched ==
    [][ \A c \in Connections : \A d \in Connections \ {c} :
          (EventOf(c) /\ HoldsEntry(d)) => connections'[sse[d].sid] = d ]_vars

\* The same for connections whose session ids differ.
EntryUntouchedForDistinctIds ==
    [][ \A c \in Connections : \A d \in Connections \ {c} :
          (EventOf(c) /\ HoldsEntry(d) /\ sse'[c].sid # sse[d].sid)
          => connections'[sse[d].sid] = d ]_vars

\* Two connections are open under ids of their own and one of them closed.
EntryUntouchedForDistinctIds_Witness ==
    /\ sse[1].st = "closed"
    /\ sse[1].sid = "alpha"
    /\ sse[2].st = "open"
    /\ sse[2].sid = "generated-2"
    /\ connections["generated-2"] = 2
    /\ connections["alpha"] = 0

\* ------------------------------------------------------------------------
\* POST /gemini (REST server, geminiService)
\* ------------------------------------------------------------------------

\* One entry of functionDeclarations: the name advertised to the model and the
\* service of the capability it declares (xFunctionDeclaration declares
\* service x; create_wallet_client is served by getWalletClient, as the route
\* POST /createWalletClient is).
Declaration(name, declares) == [name |-> name, declares |-> declares]

FunctionDeclarations ==
    <<
       Declaration("get_balance", "getBalance"),
       Declaration("get_erc20_balance", "getERC20Balance"),
       Declaration("is_nft_owner", "isNFTOwner"),
       Declaration("get_erc721_balance", "getERC721Balance"),
       Declaration("get_address_from_private_key", "getAddressFromPrivateKey"),
       Declaration("get_chain_info", "getChainInfo"),
       Declaration("create_wallet_client", "getWalletClient"),
       Declaration("get_block_number", "getBlockNumber"),
       Declaration("get_block_by_number", "getBlockByNumber"),
       Declaration("get_block_by_hash", "getBlockByHash"),
       Declaration("get_latest_block", "getLatestBlock"),
       Declaration("read_contract", "readContract"),
       Declaration("write_contract", "writeContract"),
       Declaration("get_logs", "getLogs"),
       Declaration("is_contract", "isContract"),
       Declaration("get_supported_networks", "getSupportedNetworks"),
       Declaration("get_network_status", "getNetworkStatus"),
       Declaration("get_nft_collection", "getNFTCollection"),
       Declaration("get_nft_ownership", "getNFTOwnership"),
       Declaration("get_nft_metadata", "getNFTMetadata"),
       Declaration("get_nft_history", "getNFTHistory"),
       Declaration("get_user_nfts", "getUserNFTs"),
       Declaration("get_erc721_token_metadata", "getERC721TokenMetadata"),
       Declaration("get_erc1155_token_uri", "getERC1155TokenURI"),
       Declaration("check_nft_ownership", "checkNFTOwnership"),
       Declaration("get_nft_balance", "getNFTBalance"),
       Declaration("get_erc1155_balance", "getERC1155Balance"),
       Declaration("get_erc20_token_info", "getERC20TokenInfo"),
       Declaration("get_transaction", "getTransaction"),
       Declaration("get_transaction_receipt", "getTransactionReceipt"),
       Declaration("get_transaction_count", "getTransactionCount"),
       Declaration("estimate_gas", "estimateGas"),
       Declaration("get_chain_id", "getChainId"),
       Declaration("get_transaction_history", "getTransactionHistory"),
       Declaration("get_wallet_activity", "getWalletActivity"),
       Declaration("transfer_sei", "transferSei"),
       Declaration("transfer_erc20", "transferERC20"),
       Declaration("approve_erc20", "approveERC20"),
       Declaration("transfer_erc721", "transferERC721"),
       Declaration("transfer_erc1155", "transferERC1155"),
       Declaration("analyze_wallet", "analyzeWallet")
    >>

AdvertisedNames == { FunctionDeclarations[i].name : i \in DOMAIN FunctionDeclarations }

\* One case of the handler's switch: the label and the service it awaits.
Case(label, service) == [label |-> label, service |-> service]

GeminiCases ==
    <<
       Case("get_balance", "getBalance"),
       Case("is_nft_owner", "isNFTOwner"),
       Case("get_address_from_private_key", "getAddressFromPrivateKey"),
       Case("get_chain_info", "getChainInfo"),
       Case("create_wallet_client", "getWalletClient"),
       Case("get_block_number", "getBlockNumber"),
       Case("get_block_by_number", "getBlockByNumber"),
       Case("get_block_by_hash", "getBlockByHash"),
       Case("get_latest_block", "getLatestBlock"),
       Case("read_contract", "readContract"),
       Case("write_contract", "writeContract"),
       Case("is_contract", "isContract"),
       Case("get_supported_networks", "getSupportedNetworks"),
       Case("get_network_status", "getNetworkStatus"),
       Case("get_nft_collection", "getNFTCollection"),
       Case("get_nft_ownership", "getNFTOwnership"),
       Case("get_nft_metadata", "getNFTMetadata"),
       Case("get_nft_history", "getNFTHistory"),
       Case("get_user_nfts", "getUserNFTs"),
       Case("check_nft_ownership", "getNFTOwnership"),
       Case("get_nft_balance", "getNFTBalance"),
       Case("get_transaction", "getTransaction"),
       Case("get_transaction_receipt", "getTransactionReceipt"),
       Case("get_transaction_count", "getTransactionCount"),
       Case("estimate_gas", "estimateGas"),
       Case("get_chain_id", "getChainId"),
       Case("get_transaction_history", "getTransactionHistory"),
       Case("get_wallet_activity", "getWalletActivity"),
       Case("transfer_sei", "transferSei"),
       Case("analyze_wallet", "analyzeWallet")
    >>

CaseLabels == { GeminiCases[i].label : i \in DOMAIN GeminiCases }

\* A switch whose every label calls the service of the declaration.
Dispatch_AsDeclared(functionName) ==
    IF functionName \in AdvertisedNames
    THEN (CHOOSE d \in { FunctionDeclarations[i] : i \in DOMAIN FunctionDeclarations } :
              d.name = functionName).declares
    ELSE ""

\* `switch (result.functionName)`: the service of the first case with that
\* label, "" for the default branch.
Dispatch(functionName) ==
    IF functionName \in CaseLabels
    THEN GeminiCases[CHOOSE i \in DOMAIN GeminiCases :
                        /\ GeminiCases[i].label = functionName
                        /\ \A j \in 1..(i - 1) : GeminiCases[j].label # functionName].service
    ELSE ""

\* Names the model may answer with: the advertised ones and one it was never given.
ReturnedNames == AdvertisedNames \cup {"get_gas_price"}

FunctionCall(name) == [t |-> "call", functionName |-> name]

TextAnswer == [t |-> "text", functionName |-> ""]

UnknownFunction == ErrorResponse(400, "Unknown function")

MissingPrompt == ErrorResponse(400, "Missing prompt")

SummaryResponse == [status |-> 200, body |-> [k |-> "summary", error |-> ""]]

TextResponse == [status |-> 200, body |-> [k |-> "text", error |-> ""]]

InitGemini ==
    /\ MoreIdle
    /\ ChainsIdle
    /\ RiskIdle
    /\ HistoryIdle
    /\ AddressIdle
    /\ SerializeIdle
    /\ RestIdle
    /\ ContractIdle
    /\ SseIdle
    /\ gPrompt \in BOOLEAN
    /\ gpc = "received"
    /\ gCall = NotCalled
    /\ gService = ""
    /\ gResponse = NotCalled
    /\ gLog = <<>>

geminiOthers == <<chainVars, riskVars, histVars, addrVars, serVars, restVars, contractVars, sseVars, moreVars>>

\* `if (!prompt) return res.status(400)...`
GeminiRejects ==
    /\ gpc = "received"
    /\ ~gPrompt
    /\ gResponse' = MissingPrompt
    /\ gpc' = "done"
    /\ UNCHANGED <<gPrompt, gCall, gService, gLog, geminiOthers>>

\* `await handleGeminiFunctionCall(prompt)` is issued.
GeminiTranslates ==
    /\ gpc = "received"
    /\ gPrompt
    /\ gpc' = "translating"
    /\ gLog' = Append(gLog, "translate")
    /\ UNCHANGED <<gPrompt, gCall, gService, gResponse, geminiOthers>>

\* The translation names a function: the switch either awaits a service or
\* answers from its default branch.
GeminiDispatches ==
    /\ gpc = "translating"
    /\ \E name \in ReturnedNames :
         /\ gCall' = FunctionCall(name)
         /\ gService' = Dispatch(name)
         /\ IF Dispatch(name) = ""
            THEN gResponse' = UnknownFunction /\ gpc' = "done" /\ gLog' = gLog
            ELSE gResponse' = gResponse /\ gpc' = "service"
                 /\ gLog' = Append(gLog, "service")
    /\ UNCHANGED <<gPrompt, geminiOthers>>

\* The translation is a plain text: `res.json(result)`.
GeminiAnswersText ==
    /\ gpc = "translating"
    /\ gCall' = TextAnswer
    /\ gResponse' = TextResponse
    /\ gpc' = "done"
    /\ UNCHANGED <<gPrompt, gService, gLog, geminiOthers>>

\* A handler that answers with the service's output as it is.
GeminiServiceResolves_Raw ==
    /\ gpc = "service"
    /\ gResponse' = [status |-> 200, body |-> [k |-> "output", error |-> ""]]
    /\ gpc' = "done"
    /\ UNCHANGED <<gPrompt, gCall, gService, gLog, geminiOthers>>

\* The service resolves: its output is serialized and the summary is requested.
GeminiServiceResolves ==
    /\ gpc = "service"
    /\ gpc' = "summarising"
    /\ gLog' = Append(gLog, "summarise")
    /\ UNCHANGED <<gPrompt, gCall, gService, gResponse, geminiOthers>>

GeminiSummaryResolves ==
    /\ gpc = "summarising"
    /\ gResponse' = SummaryResponse
    /\ gpc' = "done"
    /\ UNCHANGED <<gPrompt, gCall, gService, gLog, geminiOthers>>

\* Any of the three awaited calls rejects: the catch clause answers.
GeminiFails ==
    /\ gpc \in {"translating", "service", "summarising"}
    /\ \E thrown \in ServiceFailures : gResponse' = CatchResponse(thrown)
    /\ gpc' = "done"
    /\ UNCHANGED <<gPrompt, gCall, gService, gLog, geminiOthers>>

NextGemini ==
    \/ GeminiRejects
    \/ GeminiTranslates
    \/ GeminiDispatches
    \/ GeminiAnswersText
    \/ GeminiServiceResolves
    \/ GeminiSummaryResolves
    \/ GeminiFails

SpecGemini == InitGemini /\ [][NextGemini]_vars

\* C17: a call whose name is advertised in functionDeclarations is dispatched
\* to the service of that same capability and is never answered with
\* 'Unknown function'.
C17_AdvertisedNameIsDispatched ==
    (gCall.t = "call" /\ gCall.functionName \in AdvertisedNames) =>
        /\ gService = Dispatch_AsDeclared(gCall.functionName)
        /\ gResponse # UnknownFunction

\* The names the handler does serve: of the advertised names, those with a
\* case whose service is the declared one.
ServedNames ==
    { n \in AdvertisedNames : Dispatch(n) = Dispatch_AsDeclared(n) }

\* A call with a served name reaches the declared service; a name the model
\* was never given is answered with 'Unknown function' and calls no service.
ServedNameIsDispatched ==
    /\ (gCall.t = "call" /\ gCall.functionName \in ServedNames) =>
           (gService = Dispatch_AsDeclared(gCall.functionName) /\ gResponse # UnknownFunction)
    /\ (gCall.t = "call" /\ gCall.functionName \notin AdvertisedNames) =>
           (gService = "" /\ gResponse = UnknownFunction)

ServedNameIsDispatched_Witness ==
    /\ gCall = FunctionCall("get_transaction_history")
    /\ gService = "getTransactionHistory"
    /\ gResponse = SummaryResponse

\* ------------------------------------------------------------------------
\* getTransactionHistory: the order and the failures of its fetches
\* ------------------------------------------------------------------------

\* min(100, L) for the latest height L.
WindowOf(latest) == IF latest < 100 THEN latest ELSE 100

\* A getBlock call is pending for a block of the window.
FetchedInWindow ==
    hpc = "block" =>
        /\ latestBlock - WindowOf(latestBlock) < blockNum
        /\ blockNum <= latestBlock

\* A step that issues a getBlock call: one call, the first for block L and
\* every later one for a lower block than the one before, issued when the
\* height, the block or the receipt awaited before has been answered.
FetchStep ==
    fetches' # fetches =>
        /\ fetches' = fetches + 1
        /\ hpc' = "block"
        /\ IF fetches = 0
           THEN hpc = "height" /\ blockNum' = latestBlock
           ELSE hpc \in {"block", "receipt"} /\ blockNum' < blockNum

\* getBlock is awaited only in a step that issued it, and a receipt is asked
\* for only while the block last fetched is walked.
AwaitStep ==
    /\ (hpc' = "block" /\ (hpc # "block" \/ blockNum' # blockNum)) => fetches' = fetches + 1
    /\ hpc' = "receipt" => (hpc \in {"block", "receipt"} /\ blockNum' = blockNum)

\* C18: the blocks are fetched one at a time, from block L downwards in
\* strictly descending order, none twice, a block only after the receipts
\* asked of the block before it are answered, every fetched block b with
\* L - min(100, L) < b <= L, hence at most 100 fetches.
C18_FetchesDescendInWindow ==
    /\ [](FetchedInWindow /\ fetches <= 100)
    /\ [][FetchStep /\ AwaitStep]_vars

\* A tall chain scanned to the end of its window, with a receipt read on the way.
C18_Witness ==
    /\ hpc = "returned"
    /\ latestBlock = TallHeight
    /\ fetches = 100
    /\ Len(transactions) > 0

\* The call has raised its error.
Raised == hpc = "threw" \/ (history # NotCalled /\ history.t = "throw")

\* An error is raised by the failed read of the height alone: no block was
\* asked for and no record collected.
RaisedAtHeightOnly ==
    Raised => (fetches = 0 /\ transactions = <<>> /\ blockNum = 0)

\* Once the height is read every await of the scan leads to the next await
\* or to the return, whether it is answered or fails.
ScanStep ==
    hpc \in {"block", "receipt"} =>
        /\ hpc' \in {"block", "receipt", "returned"}
        /\ hpc' = "returned" => (history'.t = "return" /\ history'.totalCount = Len(transactions'))

\* A block left without a receipt asked of it (its fetch failed, or it holds
\* nothing to record) adds no record, and the scan goes on at the block below
\* or returns.
SkipStep ==
    (hpc = "block" /\ hpc' # "receipt") =>
        /\ blockNum' = blockNum - 1
        /\ Len(transactions') = Len(transactions)
        /\ hpc' = "block" => fetches' = fetches + 1

EntriesOf(h) == { i \in 1..Len(history.transactions) : history.transactions[i].hash = h }

KeptWithDefaults ==
    hpc = "returned" =>
        \A h \in unread :
            /\ Cardinality(EntriesOf(h)) = 1
            /\ \A i \in EntriesOf(h) :
                 /\ history.transactions[i].gasUsed = <<"0">>
                 /\ history.transactions[i].status = "success"
                 /\ history.transactions[i].fee = <<"0">>

\* The step in which a receipt fetch fails adds one record, and the scan goes
\* on: a further receipt is asked for only while the records, that one
\* included, are fewer than limit.
FailedReceiptStep ==
    unread' # unread =>
        /\ Len(transactions') = Len(transactions) + 1
        /\ hpc' \in {"receipt", "block", "returned"}
        /\ hpc' \in {"receipt", "block"} =>
               (hLimit.t = "num" /\ Len(transactions') * 10 < hLimit.v)

MaxWords == 3

\* The words call data is made of: the four known selectors, one unknown
\* selector and one argument word.
DataWords ==
    {SelTransfer, SelTransferFrom, SelSwapExactETH, SelSwapExactTokens, "deadbeef", "00000001"}

CallData == UNION { [1..n -> DataWords] : n \in 0..MaxWords }

ClassifyInputs == { [to |-> t, input |-> d] : t \in {CLower, NullAddress}, d \in CallData }

InitClassify ==
    /\ ChainsIdle
    /\ RiskIdle
    /\ HistoryIdle
    /\ AddressIdle
    /\ SerializeIdle
    /\ RestIdle
    /\ ContractIdle
    /\ SseIdle
    /\ GeminiIdle
    /\ NftToolIdle
    /\ EndpointIdle
    /\ clsTx \in ClassifyInputs
    /\ clsType = NotCalled

classifyOthers ==
    <<chainVars, riskVars, histVars, addrVars, serVars, restVars, contractVars, sseVars,
      geminiVars, nftToolVars, endpointVars>>

\* The type is determined for the record of a matching transaction.
Classify ==
    /\ clsType = NotCalled
    /\ clsType' = [t |-> "type", type |-> TxType(clsTx)]
    /\ UNCHANGED <<clsTx, classifyOthers>>

NextClassify == Classify

SpecClassify == InitClassify /\ [][NextClassify]_vars

\* The type the leading selector alone stands for.
TypeOfLeading(input) ==
    IF Len(input) = 0 THEN "transfer"
    ELSE IF input[1] \in {"a9059cbb", "23b872dd"} THEN "transfer"
    ELSE IF input[1] \in {"7ff36ab5", "38ed1739"} THEN "swap"
    ELSE "contract"

\* C21: for a transaction with a recipient the type depends on the leading
\* 4-byte selector alone: 'transfer' without call data or with a9059cbb or
\* 23b872dd, 'swap' with 7ff36ab5 or 38ed1739, 'contract' otherwise; the
\* bytes after the selector never change it.
C21_TypeByLeadingSelector ==
    (clsType # NotCalled /\ clsTx.to # NullAddress) =>
        clsType.type = TypeOfLeading(clsTx.input)

\* For call data that is a selector and nothing else, or no call data, the
\* type is the one the selector stands for.
TypeOfBareSelector ==
    (clsType # NotCalled /\ clsTx.to # NullAddress /\ Len(clsTx.input) <= 1) =>
        clsType.type = TypeOfLeading(clsTx.input)

TypeOfBareSelector_Witness ==
    /\ clsType # NotCalled
    /\ clsTx = [to |-> CLower, input |-> <<SelSwapExactTokens>>]
    /\ clsType.type = "swap"

\* ------------------------------------------------------------------------
\* getTransactionHistory: which transactions are returned
\* ------------------------------------------------------------------------

\* The blocks of the scan window of the chain.
ScanBlocks == (latestBlock - WindowOf(latestBlock) + 1)..latestBlock

\* The positions (block, index) of the window's transactions whose from or to
\* is the queried address, ignoring case.
Matching ==
    { p \in ScanBlocks \X (1..4) :
        /\ p[2] <= Len(blocks[p[1]])
        /\ \/ ToLowerCase(blocks[p[1]][p[2]].from) = ToLowerCase(hAddress)
           \/ ToLowerCase(blocks[p[1]][p[2]].to) = ToLowerCase(hAddress) }

\* p comes before q on the walk: in a newer block, or earlier in the same block.
WalkedBefore(p, q) == p[1] > q[1] \/ (p[1] = q[1] /\ p[2] < q[2])

\* The returned list is the first k matching transactions in walking order.
ReturnsFirst(k) ==
    /\ Len(history.transactions) = k
    /\ \A j \in 1..k :
         \E p \in Matching :
            /\ history.transactions[j].hash = p
            /\ history.transactions[j].blockNumber = p[1]
            /\ Cardinality({ q \in Matching : WalkedBefore(q, p) }) = j - 1

NoFetchFailed == hpc = "returned" /\ ~skipped /\ unread = {}

\* Every returned record is of a transaction from or to the address.
OnlyMatchingReturned ==
    hpc = "returned" =>
        \A j \in 1..Len(history.transactions) : history.transactions[j].hash \in Matching

EffectiveLimit ==
    IF hLimit.t = "num" /\ hLimit.v > 0 THEN (hLimit.v + 9) \div 10 ELSE 0

LimitCollected == hLimit.t = "num" /\ Len(transactions) * 10 >= hLimit.v

\* With the limit collected no getBlock or getTransactionReceipt call is pending.
NoFetchPendingAtLimit == LimitCollected => hpc \notin {"block", "receipt"}

\* With the limit collected no step issues a fetch or adds a record.
NoFetchStepAtLimit ==
    LimitCollected =>
        /\ fetches' = fetches
        /\ hpc' \notin {"block", "receipt"}
        /\ Len(transactions') = Len(transactions)

\* C23: once `limit` matching transactions are collected no further block
\* fetch and no further receipt fetch is issued, even when matching
\* transactions remain in the current block or in older blocks of the window.
C23_NoFetchAfterLimit ==
    /\ []NoFetchPendingAtLimit
    /\ [][NoFetchStepAtLimit]_vars

\* The scan returned with limit 1 after one block fetch, leaving a matching
\* transaction in the block it read and another in an older block never read.
C23_Witness ==
    /\ hpc = "returned"
    /\ hLimit = Num(10)
    /\ latestBlock = 2
    /\ fetches = 1
    /\ Len(history.transactions) = 1
    /\ \E p \in Matching : p[1] = 2 /\ p # history.transactions[1].hash
    /\ \E p \in Matching : p[1] < 2

\* ------------------------------------------------------------------------
\* getWalletActivity: lastActivity and recentTransactions
\* ------------------------------------------------------------------------

\* getWalletActivity has returned its summary.
ActivityReturned == entry = "activity" /\ outcome # NotCalled /\ outcome.t = "return"

\* The block numbers of the recent transactions returned.
RecentBlocks ==
    { outcome.recentTransactions[i].hash[1] : i \in 1..Len(outcome.recentTransactions) }

\* C24: when the scan of getWalletActivity finds a matching transaction,
\* lastActivity is the timestamp of the block with the greatest block number
\* among the recent transactions returned, and these are at most 5.
C24_LastActivityIsNewest ==
    (ActivityReturned /\ Len(outcome.recentTransactions) > 0) =>
        /\ outcome.lastActivity.t = "time"
        /\ \E b \in RecentBlocks :
              /\ \A c \in RecentBlocks : c <= b
              /\ outcome.lastActivity.at = BlockTimestamp(b)
        /\ \A i \in 1..Len(outcome.recentTransactions) :
              outcome.recentTransactions[i].timestamp
                  = BlockTimestamp(outcome.recentTransactions[i].hash[1])
        /\ Len(outcome.recentTransactions) <= 5

\* Five recent transactions of two or more blocks returned, of more than five
\* matching ones in the window.
C24_Witness ==
    /\ ActivityReturned
    /\ Len(outcome.recentTransactions) = 5
    /\ Cardinality(Matching) > 5
    /\ Cardinality(RecentBlocks) > 1

\* C25: with a transaction count above 0 and no matching transaction found,
\* lastActivity is not null and lies a whole number d of days back, with
\* 1 <= d <= 179 for a count up to 10, 1 <= d <= 89 for a count of 11 to 100
\* and 1 <= d <= 29 for a count above 100; the transactionCount returned is
\* always the chain's count.
C25_EstimateNarrowsWithCount ==
    ActivityReturned =>
        /\ outcome.transactionCount = nonce
        /\ (nonce > 0 /\ Len(outcome.recentTransactions) = 0) =>
              /\ outcome.lastActivity.t = "estimate"
              /\ outcome.lastActivity.daysAgo >= 1
              /\ outcome.lastActivity.daysAgo <=
                    (IF nonce > 100 THEN 29 ELSE IF nonce > 10 THEN 89 ELSE 179)

\* The estimates at the far end of each range, and the floor of 1.
C25_Witness ==
    /\ ActivityReturned
    /\ nonce = 11
    /\ Len(outcome.recentTransactions) = 0
    /\ outcome.lastActivity = [t |-> "estimate", at |-> 0, daysAgo |-> 89]

C25_WitnessFloor ==
    /\ ActivityReturned
    /\ nonce = 101
    /\ Len(outcome.recentTransactions) = 0
    /\ outcome.lastActivity = [t |-> "estimate", at |-> 0, daysAgo |-> 1]

\* ------------------------------------------------------------------------
\* The get_nft_info and get_nft_activity tools (tools.ts)
\* ------------------------------------------------------------------------

MaxNftHeight == 4

NftScanWindow == 50

NftDefaultLimit == 10

\* What a chain or external call throws.
NftFailures == { ThrownError("Error", "timeout"), ThrownString("execution reverted") }

\* `error instanceof Error ? error.message : String(error)`.
MessageOf(thrown) == IF thrown.k = "Error" THEN thrown.message ELSE thrown.text

\* The error-flagged content block of a handler's catch clause.
NftError(prefix, thrown) ==
    [isError |-> TRUE, prefix |-> prefix, message |-> MessageOf(thrown), owner |-> "", count |-> 0]

\* The content block of get_nft_info.
NftInfo(owner) ==
    [isError |-> FALSE, prefix |-> "", message |-> "", owner |-> owner, count |-> 0]

\* The content block of get_nft_activity: the activities found.
NftActivity(count) ==
    [isError |-> FALSE, prefix |-> "", message |-> "", owner |-> "", count |-> count]

InitNftTool ==
    /\ ChainsIdle
    /\ RiskIdle
    /\ HistoryIdle
    /\ AddressIdle
    /\ SerializeIdle
    /\ RestIdle
    /\ ContractIdle
    /\ SseIdle
    /\ GeminiIdle
    /\ ClassifyIdle
    /\ EndpointIdle
    /\ nTool \in {"get_nft_info", "get_nft_activity"}
    /\ npc = IF nTool = "get_nft_info" THEN "metadata" ELSE "height"
    /\ nLatest \in 0..MaxNftHeight
    /\ nBlock = 0
    /\ nCount = 0
    /\ nFailed = <<>>
    /\ nResult = NotCalled

nftOthers ==
    <<chainVars, riskVars, histVars, addrVars, serVars, restVars, contractVars, sseVars,
      geminiVars, classifyVars, endpointVars>>

\* get_nft_info: getERC721TokenMetadata answers; ownerOf is read next.
NftMetadataOk ==
    /\ npc = "metadata"
    /\ npc' = "owner"
    /\ UNCHANGED <<nTool, nLatest, nBlock, nCount, nFailed, nResult, nftOthers>>

\* get_nft_info: getERC721TokenMetadata fails; the outer catch answers.
NftMetadataFail ==
    /\ npc = "metadata"
    /\ \E thrown \in NftFailures :
         /\ nFailed' = Append(nFailed, thrown)
         /\ nResult' = NftError("Error fetching NFT info: ", thrown)
    /\ npc' = "done"
    /\ UNCHANGED <<nTool, nLatest, nBlock, nCount, nftOthers>>

\* get_nft_info: ownerOf answers.
NftOwnerOk ==
    /\ npc = "owner"
    /\ nResult' = NftInfo("0xowner")
    /\ npc' = "done"
    /\ UNCHANGED <<nTool, nLatest, nBlock, nCount, nFailed, nftOthers>>

\* get_nft_info: ownerOf fails; the inner catch is empty and `owner || 'Unknown'`
\* is answered.
NftOwnerFail ==
    /\ npc = "owner"
    /\ \E thrown \in NftFailures : nFailed' = Append(nFailed, thrown)
    /\ nResult' = NftInfo("Unknown")
    /\ npc' = "done"
    /\ UNCHANGED <<nTool, nLatest, nBlock, nCount, nftOthers>>

\* The head of the activity scan at block b with count activities: fetch
\* the block, or return what was found.
NftLoopHead(b, count) ==
    LET blocksToScan == IF nLatest < NftScanWindow THEN nLatest ELSE NftScanWindow
    IN  IF b > nLatest - blocksToScan /\ count < NftDefaultLimit
        THEN /\ npc' = "block"
             /\ nResult' = nResult
        ELSE /\ npc' = "done"
             /\ nResult' = NftActivity(count)

\* get_nft_activity: getBlockNumber answers and the scan starts.
NftHeightOk ==
    /\ npc = "height"
    /\ nBlock' = nLatest
    /\ NftLoopHead(nLatest, 0)
    /\ UNCHANGED <<nTool, nLatest, nCount, nFailed, nftOthers>>

\* get_nft_activity: getBlockNumber fails; fetchRealTimeNFTActivity returns []
\* and the handler answers with it.
NftHeightFail ==
    /\ npc = "height"
    /\ \E thrown \in NftFailures : nFailed' = Append(nFailed, thrown)
    /\ nResult' = NftActivity(0)
    /\ npc' = "done"
    /\ UNCHANGED <<nTool, nLatest, nBlock, nCount, nftOthers>>

\* get_nft_activity: getBlock answers with found activities in the block.
NftBlockOk ==
    /\ npc = "block"
    /\ \E found \in 0..1 :
         /\ nCount' = nCount + found
         /\ NftLoopHead(nBlock - 1, nCount + found)
    /\ nBlock' = nBlock - 1
    /\ UNCHANGED <<nTool, nLatest, nFailed, nftOthers>>

\* get_nft_activity: getBlock fails; the block is skipped.
NftBlockFail ==
    /\ npc = "block"
    /\ \E thrown \in NftFailures : nFailed' = Append(nFailed, thrown)
    /\ NftLoopHead(nBlock - 1, nCount)
    /\ nBlock' = nBlock - 1
    /\ UNCHANGED <<nTool, nLatest, nCount, nftOthers>>

NextNftTool ==
    \/ NftMetadataOk
    \/ NftMetadataFail
    \/ NftOwnerOk
    \/ NftOwnerFail
    \/ NftHeightOk
    \/ NftHeightFail
    \/ NftBlockOk
    \/ NftBlockFail

SpecNftTool == InitNftTool /\ [][NextNftTool]_vars

\* C26: when a chain or external call a tool handler makes fails, the
\* handler's result is flagged as an error and carries the failure's message;
\* no handler answers a failed call with a non-error default.
C26_FailureIsErrorResult ==
    (npc = "done" /\ nFailed # <<>>) =>
        /\ nResult.isError
        /\ \E i \in 1..Len(nFailed) : nResult.message = MessageOf(nFailed[i])

\* A failure of the first call of get_nft_info is answered with an error
\* result carrying its message.
MetadataFailureIsErrorResult ==
    (nTool = "get_nft_info" /\ npc = "done" /\ nFailed # <<>> /\ nResult.owner = "") =>
        (nResult.isError /\ nResult.message = MessageOf(nFailed[1]))

MetadataFailureIsErrorResult_Witness ==
    /\ nTool = "get_nft_info"
    /\ npc = "done"
    /\ nFailed = <<ThrownString("execution reverted")>>
    /\ nResult = NftError("Error fetching NFT info: ", ThrownString("execution reverted"))

\* ------------------------------------------------------------------------
\* POST /gemini: the order of the calls
\* ------------------------------------------------------------------------

\* The request with a prompt is answered.
GeminiAnswered == gPrompt /\ gpc = "done"

\* Free text: the response is the text; one model call, no service.
TextIsAnsweredDirectly ==
    gCall = TextAnswer =>
        /\ gLog = <<"translate">>
        /\ gService = ""
        /\ gResponse = TextResponse

\* A dispatched call: the translation, then one service invocation, then
\* the summarising call; a response of success is the summary alone.
CallIsServedOnceThenSummarised ==
    (gCall # NotCalled /\ gCall.t = "call" /\ gService # "") =>
        /\ \/ gLog = <<"translate", "service">>
           \/ gLog = <<"translate", "service", "summarise">>
        /\ gpc = "summarising" => gLog = <<"translate", "service", "summarise">>
        /\ (gpc = "done" /\ gResponse.status = 200) =>
              (gResponse = SummaryResponse /\ gLog = <<"translate", "service", "summarise">>)
        /\ gpc = "done" => gResponse.status \in {200, 500}

\* An unknown name: 400, no service and no summarising call.
UnknownIsRefused ==
    (gCall # NotCalled /\ gCall.t = "call" /\ gService = "") =>
        /\ gResponse = UnknownFunction
        /\ gResponse.status = 400
        /\ gLog = <<"translate">>

\* C27: a request with a prompt is answered with the model's text, no service
\* and no second model call being made, when the model returns text; with the
\* summary alone, after exactly one service invocation between the
\* translating and the summarising call, when it returns a dispatched call;
\* and with 400, no summarising call being made, when the name is unknown.
C27_GeminiCallOrder ==
    /\ TextIsAnsweredDirectly
    /\ CallIsServedOnceThenSummarised
    /\ UnknownIsRefused

\* A dispatched call answered with its summary.
C27_Witness ==
    /\ GeminiAnswered
    /\ gCall = FunctionCall("get_balance")
    /\ gService = "getBalance"
    /\ gLog = <<"translate", "service", "summarise">>
    /\ gResponse = SummaryResponse

C27_WitnessText ==
    GeminiAnswered /\ gCall = TextAnswer /\ gResponse = TextResponse

C27_WitnessUnknown ==
    GeminiAnswered /\ gCall = FunctionCall("get_gas_price") /\ gResponse = UnknownFunction

\* ------------------------------------------------------------------------
\* The SSE sessions: POST /messages and the other requests
\* ------------------------------------------------------------------------

\* The table's entries, as pairs of id and connection.
TableEntries == { <<id, connections[id]>> : id \in { i \in DOMAIN connections : connections[i] # 0 } }

\* The answer of the POST /messages request made in this step, by the table
\* and the server as they are when it is made.
MessageStep ==
    (request' # request /\ request'.route = "messages") =>
        LET p      == request'.param
            h      == request'.handler
            hasId  == p.present /\ p.text # ""
            byId   == hasId /\ <<p.text, h>> \in TableEntries
            byOnly == ~hasId /\ TableEntries = { e \in TableEntries : e[2] = h }
                             /\ Cardinality(TableEntries) = 1
        IN  /\ h # 0 => (byId \/ byOnly)
            /\ h = 0 =>
                  request'.status =
                     (IF server = "null" THEN 503
                      ELSE IF ~hasId /\ Cardinality(TableEntries) # 1 THEN 400
                      ELSE 404)
            /\ (h = 0 /\ server # "null" /\ hasId) => \A e \in TableEntries : e[1] # p.text
            /\ (h = 0 /\ server # "null") => ~(~hasId /\ Cardinality(TableEntries) = 1)

\* C28: a POST /messages request is handed to a transport only if the
\* transport is the table's entry for the request's sessionId, or the request
\* has no sessionId and the table has exactly one entry; otherwise no
\* transport handles it and the answer is 503 when the server is not
\* initialised, else 400 when no session id can be determined, else 404.
C28_MessageReachesItsSession ==
    [][MessageStep]_vars

\* A request without a session id handed to the only session, while the other
\* connection was closed.
C28_Witness ==
    /\ request # NotCalled
    /\ request.route = "messages"
    /\ ~request.param.present
    /\ request.handler = 2
    /\ sse[1].st = "closed"

C28_WitnessNotFound ==
    /\ request # NotCalled
    /\ request.route = "messages"
    /\ request.param = [present |-> TRUE, text |-> "beta"]
    /\ request.status = 404
    /\ connections["alpha"] = 1

C28_WitnessNoId ==
    /\ request # NotCalled
    /\ request.route = "messages"
    /\ request.status = 400
    /\ Cardinality(TableEntries) = 2

\* Every transport in the table is of a connection that has not closed.
EntriesAreOfOpenConnections ==
    \A e \in TableEntries : sse[e[2]].st = "open"

\* A step that changes the table is a GET /sse or its close or
\* connect-failure callback; POST /messages, GET /health and the REST routes
\* (the steps that set `request`) leave it unchanged.
TableStep ==
    /\ connections' # connections =>
          \E c \in Connections :
             /\ sse'[c] # sse[c]
             /\ \/ sse[c].st = "none" /\ sse'[c].st = "open"
                \/ sse[c].st = "open" /\ sse'[c].st = "closed"
                \/ sse[c].connect = "pending" /\ sse'[c].connect = "failed"
    /\ request' # request => connections' = connections

\* C29: in every reachable state each transport in the session table belongs
\* to an SSE connection whose close event has not occurred; only GET /sse
\* and its close and connect-failure callbacks change the table, and POST
\* /messages, GET /health and the REST routes leave it unchanged.
C29_TableHoldsOpenConnections ==
    /\ []EntriesAreOfOpenConnections
    /\ [][TableStep]_vars

\* One connection has closed, the other is open and in the table, both under
\* the id alpha, and a message was handed to the open one.
C29_Witness ==
    /\ sse[1].st = "closed"
    /\ sse[1].sid = "alpha"
    /\ sse[2].st = "open"
    /\ sse[2].sid = "alpha"
    /\ TableEntries = {<<"alpha", 2>>}
    /\ request = MessageAnswer([present |-> TRUE, text |-> "alpha"], 200, 2)

\* ------------------------------------------------------------------------
\* Endpoint lookups of the network registry (chains.ts)
\* ------------------------------------------------------------------------

MaxProbeId == 60

DEFAULT_RPC_URL == "https://evm-rpc-testnet.sei-apis.com"

SEI_RPC_ENDPOINTS ==
    [mainnet |-> <<"https://evm-rpc.sei-apis.com",
                   "https://sei-evm-rpc.stakeme.pro",
                   "https://node.histori.xyz/sei-mainnet/8ry9f6t9dct1se2hlagxnd9n2a",
                   "https://sei.drpc.org">>,
     testnet |-> <<"https://evm-rpc-testnet.sei-apis.com">>,
     devnet  |-> <<"https://evm-rpc-arctic-1.sei-apis.com">>]

SEI_WS_ENDPOINTS ==
    [mainnet |-> <<"wss://evm-ws.sei-apis.com", "wss://sei.drpc.org">>,
     testnet |-> <<"wss://evm-ws-testnet.sei-apis.com">>,
     devnet  |-> <<"wss://evm-ws-arctic-1.sei-apis.com">>]

\* rpcUrlMap: chain id -> the primary endpoint of the chain's pool.
rpcUrlMap ==
    [id \in chainMapKeys |->
        IF id = SeiChainId THEN SEI_RPC_ENDPOINTS.mainnet[1]
        ELSE IF id = SeiTestnetChainId THEN SEI_RPC_ENDPOINTS.testnet[1]
        ELSE SEI_RPC_ENDPOINTS.devnet[1]]

\* getRpcUrl of a number: `rpcUrlMap[chainId] || DEFAULT_RPC_URL`.
getRpcUrl(chainIdentifier) ==
    LET chainId == IF chainIdentifier.t = "str" THEN resolveChainId(chainIdentifier)
                   ELSE Num(chainIdentifier.v)
    IN  IF IsNumber(chainId) /\ chainId.v \in DOMAIN rpcUrlMap
        THEN rpcUrlMap[chainId.v]
        ELSE DEFAULT_RPC_URL

\* getWebSocketUrl: the first endpoint of the pool the chain id selects, the
\* mainnet pool for an id that is none of the three.
getWebSocketUrl(chainIdentifier) ==
    LET chainId   == resolveChainId(chainIdentifier)
        endpoints == IF chainId = Num(SeiChainId) THEN SEI_WS_ENDPOINTS.mainnet
                     ELSE IF chainId = Num(SeiTestnetChainId) THEN SEI_WS_ENDPOINTS.testnet
                     ELSE IF chainId = Num(SeiDevnetChainId) THEN SEI_WS_ENDPOINTS.devnet
                     ELSE SEI_WS_ENDPOINTS.mainnet
    IN  endpoints[1]

\* The numeric chain identifiers looked up: the three of the registry and a
\* range of numbers that are none of them.
ProbeIds == (0..MaxProbeId) \cup chainMapKeys

NoEndpoint == "none"

InitEndpoints ==
    /\ ChainsIdle
    /\ RiskIdle
    /\ HistoryIdle
    /\ AddressIdle
    /\ SerializeIdle
    /\ RestIdle
    /\ ContractIdle
    /\ SseIdle
    /\ GeminiIdle
    /\ ClassifyIdle
    /\ NftToolIdle
    /\ eId \in ProbeIds
    /\ eResult = NotCalled

endpointOthers ==
    <<chainVars, riskVars, histVars, addrVars, serVars, restVars, contractVars, sseVars,
      geminiVars, classifyVars, nftToolVars>>

\* A caller reads the chain descriptor of the identifier.
GetChainStep ==
    /\ eResult = NotCalled
    /\ eResult' = [t |-> "chain", chain |-> getChain(Num(eId)).chain,
                   rpc |-> NoEndpoint, ws |-> NoEndpoint]
    /\ UNCHANGED <<eId, endpointOthers>>

\* ... then the RPC endpoint of the same identifier.
GetRpcUrlStep ==
    /\ eResult.t = "chain"
    /\ eResult' = [eResult EXCEPT !.t = "rpc", !.rpc = getRpcUrl(Num(eId))]
    /\ UNCHANGED <<eId, endpointOthers>>

\* ... then its WebSocket endpoint.
GetWebSocketUrlStep ==
    /\ eResult.t = "rpc"
    /\ eResult' = [eResult EXCEPT !.t = "endpoints", !.ws = getWebSocketUrl(Num(eId))]
    /\ UNCHANGED <<eId, endpointOthers>>

NextEndpoints ==
    \/ GetChainStep
    \/ GetRpcUrlStep
    \/ GetWebSocketUrlStep

SpecEndpoints == InitEndpoints /\ [][NextEndpoints]_vars

\* The primary RPC and WebSocket endpoints of the network of a chain id.
PrimaryRpcOf(id) ==
    IF id = SeiChainId THEN SEI_RPC_ENDPOINTS.mainnet[1]
    ELSE IF id = SeiTestnetChainId THEN SEI_RPC_ENDPOINTS.testnet[1]
    ELSE SEI_RPC_ENDPOINTS.devnet[1]

PrimaryWsOf(id) ==
    IF id = SeiChainId THEN SEI_WS_ENDPOINTS.mainnet[1]
    ELSE IF id = SeiTestnetChainId THEN SEI_WS_ENDPOINTS.testnet[1]
    ELSE SEI_WS_ENDPOINTS.devnet[1]

EndpointsOfDescriptor ==
    /\ eResult.rpc = PrimaryRpcOf(eResult.chain.id)
    /\ eResult.ws = PrimaryWsOf(eResult.chain.id)

\* C30: for every numeric chain identifier, known or unknown, the endpoints
\* returned by getRpcUrl and getWebSocketUrl are the primary RPC and WebSocket
\* endpoints of the chain id of the descriptor getChain returns.
C30_EndpointsMatchChain ==
    eResult.t = "endpoints" => EndpointsOfDescriptor

\* For the three chain ids of the registry the descriptor and both endpoints
\* are of the same network.
KnownIdEndpointsMatch ==
    (eResult.t = "endpoints" /\ eId \in chainMapKeys) => EndpointsOfDescriptor

KnownIdEndpointsMatch_Witness ==
    /\ eResult.t = "endpoints"
    /\ eId = SeiDevnetChainId
    /\ eResult.chain.id = SeiDevnetChainId
    /\ eResult.ws = SEI_WS_ENDPOINTS.devnet[1]

\* An unknown id is answered with the mainnet descriptor and WebSocket
\* endpoint, and the RPC endpoint of the testnet.
UnknownIdIsSplit ==
    (eResult.t = "endpoints" /\ eId \notin chainMapKeys) =>
        /\ eResult.chain.id = SeiChainId
        /\ eResult.ws = SEI_WS_ENDPOINTS.mainnet[1]
        /\ eResult.rpc = SEI_RPC_ENDPOINTS.testnet[1]

UnknownIdIsSplit_Witness ==
    /\ eResult.t = "endpoints"
    /\ eId = 1

====
